---- MODULE Spec2Model ----
(***************************************************************************)
(* PyPotteryLens project store (apps/PyPotteryLens/project_manager.py).    *)
(*                                                                         *)
(* The store keeps one directory per project under projects_root; each     *)
(* directory holds seven sub-folders and the sidecar project.json.  Every  *)
(* mutation is a read-modify-write of the whole sidecar, with no lock.     *)
(*                                                                         *)
(* Two specifications share the same primitives:                           *)
(*   Spec      one caller, every ProjectManager method is one atomic step; *)
(*   SpecConc  two request threads (Flask runs threaded=True), every       *)
(*             method is split at its file-system calls.                   *)
(***************************************************************************)
EXTENDS Integers, Sequences, FiniteSets, TLC

VARIABLES
    fs,       \* projects_root: project id -> [folders, file, files]
    clock,    \* datetime.now(), in ticks
    th,       \* per thread: the call in progress or the last call returned
    nextIno,  \* next fresh inode number (identity of an opened file)
    calls,    \* number of calls started so far
    globals,  \* app.py: operation_progress, model_progress, builtins.print
    manager,  \* the launcher's AppManager: apps, _processes
    host,     \* the launcher's machine: child processes, installed apps
    checker   \* the launcher's UpdateChecker: _cache, and what GitHub lists

vars == <<fs, clock, th, nextIno, calls, globals, manager, host, checker>>

(* The state the project store does not touch *)
beyondStore == <<globals, manager, host, checker>>

---------------------------------------------------------------------------
(* Bounds of the model *)

MaxClock == 2
TicksPerSec == 2
MaxCalls == 3
MaxClockConc == 1
MaxCallsConc == 3
MaxStageCalls == 4
MaxLauncherCalls == 4
MaxProcs == 2
MaxRouteCalls == 3

Threads == {"t1", "t2"}
SeqThread == "t1"

---------------------------------------------------------------------------
(* Python values, tagged with their type *)

PyStr(s) == [t |-> "str", v |-> s]
PyInt(n) == [t |-> "int", v |-> n]
PyFloat(tenths) == [t |-> "float", v |-> tenths]
PyBool(b) == [t |-> "bool", v |-> b]
PyNone == [t |-> "NoneType", v |-> 0]
PyList(s) == [t |-> "list", v |-> s]
PyDict(f) == [t |-> "dict", v |-> f]
Raise(e) == [t |-> "raise", v |-> e]

(* JSON text, as the value it spells *)
JString(s) == [j |-> "string", v |-> s]
JInteger(n) == [j |-> "integer", v |-> n]
JReal(tenths) == [j |-> "real", v |-> tenths]
JTrue == [j |-> "true", v |-> 0]
JFalse == [j |-> "false", v |-> 0]
JNull == [j |-> "null", v |-> 0]
JArray(s) == [j |-> "array", v |-> s]
JObject(f) == [j |-> "object", v |-> f]

(* json.dump: dict -> object, list and tuple -> array, str -> string,
   int -> integer literal, float -> literal with a fraction, True/False ->
   true/false, None -> null *)
RECURSIVE JsonDump(_)
JsonDump(p) ==
    CASE p.t = "str" -> JString(p.v)
      [] p.t = "int" -> JInteger(p.v)
      [] p.t = "float" -> JReal(p.v)
      [] p.t = "bool" -> IF p.v THEN JTrue ELSE JFalse
      [] p.t = "NoneType" -> JNull
      [] p.t \in {"list", "tuple"} ->
            JArray([i \in 1..Len(p.v) |-> JsonDump(p.v[i])])
      [] p.t = "dict" ->
            JObject([k \in DOMAIN p.v |-> JsonDump(p.v[k])])

(* json.load: object -> dict, array -> list, string -> str, integer
   literal -> int, literal with a fraction -> float, true/false -> bool,
   null -> None *)
RECURSIVE JsonLoad(_)
JsonLoad(x) ==
    CASE x.j = "string" -> PyStr(x.v)
      [] x.j = "integer" -> PyInt(x.v)
      [] x.j = "real" -> PyFloat(x.v)
      [] x.j = "true" -> PyBool(TRUE)
      [] x.j = "false" -> PyBool(FALSE)
      [] x.j = "null" -> PyNone
      [] x.j = "array" ->
            PyList([i \in 1..Len(x.v) |-> JsonLoad(x.v[i])])
      [] x.j = "object" ->
            PyDict([k \in DOMAIN x.v |-> JsonLoad(x.v[k])])

(* Number of characters json.dump(..., indent=2) writes for a value at
   nesting depth d: items on their own lines, indented two spaces per level,
   separated by "," and keys followed by ": " *)
RECURSIVE SumOver(_, _)
SumOver(sizes, S) ==
    IF S = {} THEN 0
    ELSE LET k == CHOOSE x \in S : TRUE IN sizes[k] + SumOver(sizes, S \ {k})

RECURSIVE JsonSize(_, _)
JsonSize(x, d) ==
    CASE x.j = "string" -> Len(x.v) + 2
      [] x.j = "integer" -> IF x.v < 10 THEN 1 ELSE 2
      [] x.j = "real" -> 3
      [] x.j \in {"true", "null"} -> 4
      [] x.j = "false" -> 5
      [] x.j = "array" ->
            IF Len(x.v) = 0 THEN 2
            ELSE LET items == [i \in DOMAIN x.v |->
                                  1 + 2 * (d + 1) + JsonSize(x.v[i], d + 1)]
                 IN  1 + SumOver(items, DOMAIN x.v) + (Len(x.v) - 1)
                       + 1 + 2 * d + 1
      [] x.j = "object" ->
            IF DOMAIN x.v = {} THEN 2
            ELSE LET items == [k \in DOMAIN x.v |->
                                  1 + 2 * (d + 1) + (Len(k) + 2) + 2
                                    + JsonSize(x.v[k], d + 1)]
                 IN  1 + SumOver(items, DOMAIN x.v)
                       + (Cardinality(DOMAIN x.v) - 1) + 1 + 2 * d + 1

---------------------------------------------------------------------------
(* Time and names *)

Digit(n) == <<"0", "1", "2", "3", "4", "5", "6", "7", "8", "9">>[n + 1]

(* datetime.now().strftime("%Y%m%d_%H%M%S"): the second, nothing finer *)
StrfTime(c) == <<Digit(c \div TicksPerSec)>>

(* datetime.now().isoformat(): the second, then the fraction unless it is 0 *)
IsoFormat(c) ==
    <<Digit(c \div TicksPerSec)>> \o
    (IF c % TicksPerSec = 0 THEN <<>> ELSE <<".", Digit(c % TicksPerSec)>>)

IsAlnum(c) == c \in {"a", "b", "0", "1", "2", "3", "4", "5", "6", "7", "8", "9"}

RECURSIVE Strip(_)
Strip(s) ==
    IF s = <<>> THEN s
    ELSE IF Head(s) = " " THEN Strip(Tail(s))
    ELSE IF s[Len(s)] = " " THEN Strip(SubSeq(s, 1, Len(s) - 1))
    ELSE s

(* project_manager.py:32-33 *)
SafeName(project_name) ==
    LET Keep(c) == IsAlnum(c) \/ c \in {" ", "-", "_"}
        kept == Strip(SelectSeq(project_name, Keep))
    IN  [i \in 1..Len(kept) |-> IF kept[i] = " " THEN "_" ELSE kept[i]]

(* project_manager.py:36-37 *)
ProjectId(project_name, c) == SafeName(project_name) \o <<"_">> \o StrfTime(c)

(* Variant: no models folder *)
Folders_six == <<"pdf_source", "images", "masks", "cards", "cards_modified",
                 "exports">>

(* project_manager.py:46-54 *)
Folders == <<"pdf_source", "images", "masks", "cards", "cards_modified",
             "exports", "models">>

(* project_manager.py:60-82 *)
Metadata(project_id, project_name, description, icon, c1, c2) ==
    PyDict([project_id |-> PyStr(project_id),
            project_name |-> PyStr(project_name),
            description |-> PyStr(description),
            icon |-> PyStr(icon),
            created_at |-> PyStr(IsoFormat(c1)),
            last_modified |-> PyStr(IsoFormat(c2)),
            workflow_status |-> PyDict(
                [pdf_processed |-> PyBool(FALSE),
                 pdf_count |-> PyInt(0),
                 images_extracted |-> PyInt(0),
                 model_applied |-> PyBool(FALSE),
                 masks_extracted |-> PyInt(0),
                 annotations_completed |-> PyInt(0),
                 total_images |-> PyInt(0),
                 reviewed_images |-> PyList(<<>>)]),
            settings |-> PyDict(
                [model_file |-> PyNone,
                 confidence_threshold |-> PyFloat(5),
                 excluded_images |-> PyList(<<>>)])])

---------------------------------------------------------------------------
(* The file system under projects_root *)

NoFile == [ino |-> 0, kind |-> "absent", text |-> JNull, size |-> 0]

(* Path.exists() of projects_root / project_id *)
PathExists(f, id) == id \in DOMAIN f

(* (project_path / folder).mkdir(parents=True, exist_ok=True) *)
Mkdir(f, id, folder) ==
    IF id \in DOMAIN f
    THEN [f EXCEPT ![id].folders = @ \cup {folder}]
    ELSE f @@ (id :> [folders |-> {folder}, file |-> NoFile, files |-> {}])

(* project_manager.py:56-57, from the i-th folder on *)
RECURSIVE MkdirFrom(_, _, _)
MkdirFrom(f, id, i) ==
    IF i > Len(Folders) THEN f
    ELSE MkdirFrom(Mkdir(f, id, Folders[i]), id, i + 1)

(* open(metadata_file, 'w'): creates the file or truncates it in place;
   the directory must exist *)
OpenW(f, id, ino) ==
    [f EXCEPT ![id].file =
        IF @.kind = "absent"
        THEN [ino |-> ino, kind |-> "empty", text |-> JNull, size |-> 0]
        ELSE [@ EXCEPT !.kind = "empty", !.text = JNull, !.size = 0]]

(* The buffered text reaches the file when it is closed: one write at
   offset 0 of the file the descriptor fd names.  What another writer put
   beyond its end stays there. *)
WriteClose(f, id, fd, text) ==
    IF id \in DOMAIN f /\ f[id].file.kind # "absent" /\ f[id].file.ino = fd
    THEN LET n == JsonSize(text, 0) IN
         [f EXCEPT ![id].file =
             IF n >= @.size
             THEN [@ EXCEPT !.kind = "json", !.text = text, !.size = n]
             ELSE [@ EXCEPT !.kind = "garbage", !.text = JNull]]
    ELSE f

(* project_manager.py:290-294 *)
LoadMetadata(f, id) ==
    LET file == f[id].file IN
    CASE file.kind = "absent" -> Raise("FileNotFoundError")
      [] file.kind \in {"empty", "garbage"} -> Raise("JSONDecodeError")
      [] file.kind = "json" -> JsonLoad(file.text)

(* project_manager.py:296-300, with nobody else in between *)
SaveMetadata(f, id, md, ino) ==
    LET opened == OpenW(f, id, ino)
    IN  WriteClose(opened, id, opened[id].file.ino, JsonDump(md))

(* Variant: nothing is removed *)
RmTree_nothing(f, id) == f

(* shutil.rmtree(project_path) *)
RmTree(f, id) == [k \in DOMAIN f \ {id} |-> f[k]]

---------------------------------------------------------------------------
(* ProjectManager: what each method computes *)

True == PyBool(TRUE)
False == PyBool(FALSE)

(* dict[key] of a nested dict of the metadata *)
Section(md, key) == md.v[key].v

(* Variant: the section is left with the one key *)
SetIn_only(md, section, key, value) ==
    PyDict([md.v EXCEPT ![section] = PyDict(key :> value)])

(* metadata[section][key] = value *)
SetIn(md, section, key, value) ==
    PyDict([md.v EXCEPT ![section] = PyDict((key :> value) @@ @.v)])

(* Variant: the section becomes the updates, its other keys are dropped *)
UpdateIn_replace(md, section, updates) ==
    PyDict([md.v EXCEPT ![section] = PyDict(updates)])

(* Variant: the keys already there win *)
UpdateIn_keep(md, section, updates) ==
    PyDict([md.v EXCEPT ![section] = PyDict(@.v @@ updates)])

(* metadata[section].update(updates): the keys of updates win, the others stay *)
UpdateIn(md, section, updates) ==
    PyDict([md.v EXCEPT ![section] = PyDict(updates @@ @.v)])

(* Variant: created_at is set to the time of the call as well *)
Touch_created(md, now) ==
    PyDict([md.v EXCEPT !["last_modified"] = PyStr(IsoFormat(now)),
                        !["created_at"] = PyStr(IsoFormat(now))])

(* Variant: last_modified is left as it was loaded *)
Touch_not(md, now) == md

(* metadata['last_modified'] = datetime.now().isoformat() *)
Touch(md, now) == PyDict([md.v EXCEPT !["last_modified"] = PyStr(IsoFormat(now))])

(* project_manager.py:255: workflow_status.get('reviewed_images', []) *)
Reviewed(md) ==
    IF "reviewed_images" \in DOMAIN Section(md, "workflow_status")
    THEN Section(md, "workflow_status")["reviewed_images"].v
    ELSE <<>>

(* Variant: every name counts as new *)
InList_never(x, s) == FALSE

(* project_manager.py:257: image_name not in reviewed *)
InList(x, s) == \E i \in DOMAIN s : s[i] = x

(* Variant: the length taken before the append *)
ReviewedCount_before(reviewed) == Len(reviewed) - 1

(* project_manager.py:260: len(reviewed), after the append *)
ReviewedCount(reviewed) == Len(reviewed)

(* Variant: the sidecar is rewritten on every call *)
NeedsSave_always(op, md, arg) == TRUE

(* project_manager.py:257: the sidecar is rewritten only for a new name *)
NeedsSave(op, md, arg) ==
    op = "add_reviewed_image" => ~InList(PyStr(arg), Reviewed(md))

(* The metadata each mutating method saves, from the metadata it loaded:
   lines 107-108, 203-204, 229-230 and 258-261 *)
Modified(op, md, arg, now) ==
    CASE op = "update_excluded_images" ->
            Touch(SetIn(md, "settings", "excluded_images", PyList(arg)), now)
      [] op = "update_workflow_status" ->
            Touch(UpdateIn(md, "workflow_status", arg), now)
      [] op = "update_settings" ->
            Touch(UpdateIn(md, "settings", arg), now)
      [] op = "add_reviewed_image" ->
            LET reviewed == Append(Reviewed(md), PyStr(arg)) IN
            Touch(SetIn(SetIn(md, "workflow_status", "reviewed_images",
                              PyList(reviewed)),
                        "workflow_status", "annotations_completed",
                        PyInt(ReviewedCount(reviewed))), now)

Outcome(f, ret, ino) == [fs |-> f, ret |-> ret, nextIno |-> ino]

InoAfterOpen(f, id, ino) == IF f[id].file.kind = "absent" THEN ino + 1 ELSE ino

(* Variant: no check that the directory exists *)
create_project_unchecked(f, project_name, description, icon, c0, c1, c2, ino) ==
    LET project_id == ProjectId(project_name, c0)
        metadata == Metadata(project_id, project_name, description, icon, c1, c2)
        made == MkdirFrom(f, project_id, 1)
    IN  Outcome(SaveMetadata(made, project_id, metadata, ino), metadata,
                InoAfterOpen(made, project_id, ino))

(* Variant: the record returned is built again after the save *)
create_project_rebuilt(f, project_name, description, icon, c0, c1, c2, ino) ==
    LET project_id == ProjectId(project_name, c0) IN
    IF PathExists(f, project_id)
    THEN Outcome(f, Raise("ValueError"), ino)
    ELSE Outcome(SaveMetadata(MkdirFrom(f, project_id, 1), project_id,
                              Metadata(project_id, project_name, description,
                                       icon, c1, c1), ino),
                 Metadata(project_id, project_name, description, icon, c1, c2),
                 ino + 1)

(* project_manager.py:19-87 *)
create_project(f, project_name, description, icon, c0, c1, c2, ino) ==
    LET project_id == ProjectId(project_name, c0) IN
    IF PathExists(f, project_id)
    THEN Outcome(f, Raise("ValueError"), ino)
    ELSE LET metadata == Metadata(project_id, project_name, description,
                                  icon, c1, c2)
             made == MkdirFrom(f, project_id, 1)
         IN  Outcome(SaveMetadata(made, project_id, metadata, ino),
                     metadata, ino + 1)

(* The shared body of update_excluded_images, update_workflow_status,
   update_settings and add_reviewed_image: exists check, load, change,
   save, with every exception turned into False *)
ReadModifyWrite(f, op, id, arg, now, ino) ==
    IF ~PathExists(f, id) THEN Outcome(f, False, ino)
    ELSE LET metadata == LoadMetadata(f, id) IN
         IF metadata.t = "raise" THEN Outcome(f, False, ino)
         ELSE IF ~NeedsSave(op, metadata, arg) THEN Outcome(f, True, ino)
         ELSE Outcome(SaveMetadata(f, id, Modified(op, metadata, arg, now), ino),
                      True, InoAfterOpen(f, id, ino))

(* project_manager.py:89-113 *)
update_excluded_images(f, id, excluded_images, now, ino) ==
    ReadModifyWrite(f, "update_excluded_images", id, excluded_images, now, ino)

(* Variant: model_applied is refused while pdf_processed is False *)
update_workflow_status_ordered(f, id, status_updates, now, ino) ==
    IF /\ PathExists(f, id)
       /\ LoadMetadata(f, id).t = "dict"
       /\ "model_applied" \in DOMAIN status_updates
       /\ Section(LoadMetadata(f, id), "workflow_status")["pdf_processed"] = False
    THEN Outcome(f, False, ino)
    ELSE ReadModifyWrite(f, "update_workflow_status", id, status_updates, now, ino)

(* project_manager.py:185-209 *)
update_workflow_status(f, id, status_updates, now, ino) ==
    ReadModifyWrite(f, "update_workflow_status", id, status_updates, now, ino)

(* project_manager.py:211-235 *)
update_settings(f, id, settings, now, ino) ==
    ReadModifyWrite(f, "update_settings", id, settings, now, ino)

(* project_manager.py:237-267 *)
add_reviewed_image(f, id, image_name, now, ino) ==
    ReadModifyWrite(f, "add_reviewed_image", id, image_name, now, ino)

(* project_manager.py:142-161 *)
get_project(f, id) ==
    IF ~PathExists(f, id) THEN PyNone
    ELSE LET metadata == LoadMetadata(f, id) IN
         IF metadata.t = "raise" THEN PyNone ELSE metadata

(* Variant: no check that the directory exists *)
delete_project_unchecked(f, id, ino) == Outcome(RmTree(f, id), True, ino)

(* project_manager.py:163-183 *)
delete_project(f, id, ino) ==
    IF ~PathExists(f, id) THEN Outcome(f, False, ino)
    ELSE Outcome(RmTree(f, id), True, ino)

(* project_manager.py:269-288 *)
get_project_path(f, id, subfolder) ==
    IF ~PathExists(f, id) THEN PyNone
    ELSE IF subfolder # "" THEN [t |-> "Path", v |-> <<id, subfolder>>]
    ELSE [t |-> "Path", v |-> <<id>>]

Uppers == <<"A", "B", "C", "D", "E", "F", "G", "H", "I", "J", "K", "L", "M",
            "N", "O", "P", "Q", "R", "S", "T", "U", "V", "W", "X", "Y", "Z">>
Lowers == <<"a", "b", "c", "d", "e", "f", "g", "h", "i", "j", "k", "l", "m",
            "n", "o", "p", "q", "r", "s", "t", "u", "v", "w", "x", "y", "z">>

IndexIn(c, s) == CHOOSE i \in DOMAIN s : s[i] = c

(* Code points of the characters of a timestamp or a file name, for str
   comparison *)
Ord(c) == CASE c = "." -> 46 [] c = "0" -> 48 [] c = "1" -> 49
            [] c = "2" -> 50 [] c = "3" -> 51 [] c = "4" -> 52
            [] c = "5" -> 53 [] c = "6" -> 54 [] c = "7" -> 55
            [] c = "8" -> 56 [] c = "9" -> 57 [] c = "_" -> 95
            [] c = " " -> 32 [] c = "-" -> 45 [] c = "/" -> 47
            [] (\E i \in DOMAIN Uppers : Uppers[i] = c) -> 64 + IndexIn(c, Uppers)
            [] (\E i \in DOMAIN Lowers : Lowers[i] = c) -> 96 + IndexIn(c, Lowers)

(* a < b for Python str *)
RECURSIVE StrLess(_, _)
StrLess(a, b) ==
    IF b = <<>> THEN FALSE
    ELSE IF a = <<>> THEN TRUE
    ELSE IF Ord(Head(a)) # Ord(Head(b)) THEN Ord(Head(a)) < Ord(Head(b))
    ELSE StrLess(Tail(a), Tail(b))

(* Variant: each record goes to the front, whatever its last_modified *)
InsertDesc_front(sorted, md) == <<md>> \o sorted

(* x.get('last_modified', '') *)
SortKey(md) == IF "last_modified" \in DOMAIN md.v THEN md.v["last_modified"].v ELSE <<>>

(* list.sort(key=..., reverse=True): stable, greatest key first *)
RECURSIVE InsertDesc(_, _)
InsertDesc(sorted, md) ==
    IF sorted = <<>> THEN <<md>>
    ELSE IF StrLess(SortKey(Head(sorted)), SortKey(md))
         THEN <<md>> \o sorted
         ELSE <<Head(sorted)>> \o InsertDesc(Tail(sorted), md)

RECURSIVE SortDesc(_, _)
SortDesc(projects, acc) ==
    IF projects = <<>> THEN acc
    ELSE SortDesc(Tail(projects), InsertDesc(acc, Head(projects)))

(* project_manager.py:115-140; entries is what iterdir() yields, in its order *)
list_projects(f, entries) ==
    LET Loads(id) == f[id].file.kind # "absent" /\ LoadMetadata(f, id).t # "raise"
        loaded == SelectSeq(entries, Loads)
        projects == [i \in 1..Len(loaded) |-> LoadMetadata(f, loaded[i])]
    IN  PyList(SortDesc(projects, <<>>))

(* An entry of a project's folder: a regular file, or a directory, by name *)
Entry(folder, name, is_file) == [folder |-> folder, name |-> name, is_file |-> is_file]

(* Path.iterdir() of project_path / folder *)
IterDir(f, id, folder) == {e \in f[id].files : e.folder = folder}

(* Path.suffix: the name from its last dot on, unless that dot is the first
   or the last character *)
Suffix(name) ==
    LET dots == {i \in DOMAIN name : name[i] = "."}
        i == IF dots = {} THEN 0 ELSE CHOOSE d \in dots : \A e \in dots : e <= d
    IN  IF 1 < i /\ i < Len(name) THEN SubSeq(name, i, Len(name)) ELSE <<>>

(* Variant: the characters are compared as they are *)
Lower_not(c) == c

(* str.lower(), one character *)
Lower(c) ==
    IF \E i \in DOMAIN Uppers : Uppers[i] = c THEN Lowers[IndexIn(c, Uppers)] ELSE c

StrLower(s) == [i \in DOMAIN s |-> Lower(s[i])]

(* project_manager.py:318 *)
image_extensions ==
    { <<".", "j", "p", "g">>, <<".", "j", "p", "e", "g">>, <<".", "p", "n", "g">>,
      <<".", "b", "m", "p">>, <<".", "t", "i", "f">>, <<".", "t", "i", "f", "f">> }

(* sorted(images): ascending by code point *)
RECURSIVE InsertAsc(_, _)
InsertAsc(sorted, name) ==
    IF sorted = <<>> THEN <<name>>
    ELSE IF StrLess(name, Head(sorted)) THEN <<name>> \o sorted
    ELSE <<Head(sorted)>> \o InsertAsc(Tail(sorted), name)

(* The names of a directory are distinct, so the sorted list does not depend
   on the order iterdir() yields them in *)
RECURSIVE SortedNames(_)
SortedNames(names) ==
    IF names = {} THEN <<>>
    ELSE LET n == CHOOSE x \in names : TRUE
         IN  InsertAsc(SortedNames(names \ {n}), n)

(* project_manager.py:302-325 *)
get_images_list(f, id, folder_type) ==
    IF get_project_path(f, id, folder_type) = PyNone \/ folder_type \notin f[id].folders
    THEN <<>>
    ELSE SortedNames({e.name : e \in {x \in IterDir(f, id, folder_type) :
                          x.is_file /\ StrLower(Suffix(x.name)) \in image_extensions}})

(* Variant: every folder counts as empty *)
count_files_none(f, id, folder_type) == 0

(* project_manager.py:327-338 *)
count_files(f, id, folder_type) == Len(get_images_list(f, id, folder_type))

---------------------------------------------------------------------------
(* Inputs of the calls *)

ProjectNames == {<<"a">>, <<"/", "a", " ">>, <<"a", " ", "b">>}
Descriptions == {"d"}
Icons == {"1.png"}
ImageNames == {"a.png", "b.png"}

(* status_updates as the callers pass them: the stage routes pass counters
   and flags (app.py:866-871), the PATCH route passes the request's own
   dictionary (app.py:427-433) *)
StatusUpdates ==
    { [pdf_processed |-> True, pdf_count |-> PyInt(1)],
      [annotations_completed |-> PyInt(2)],
      [reviewed_images |-> PyList(<<PyStr("a.png"), PyStr("a.png")>>)] }

(* The keys only add_reviewed_image is meant to write *)
ReviewKeys == {"annotations_completed", "reviewed_images"}

SettingsUpdates == { [model_file |-> PyStr("m.pt")] }

ExcludedLists == { <<>>, <<PyStr("a.png")>> }

(* Every id a create can derive within the clock's range *)
ProjectIds == {ProjectId(n, c) : n \in ProjectNames, c \in 0..MaxClock}

Orderings(S) ==
    {s \in [1..Cardinality(S) -> S] : \A i, k \in DOMAIN s : s[i] = s[k] => i = k}

---------------------------------------------------------------------------
(* Threads *)

Idle == [pc |-> "idle", op |-> "none", id |-> <<>>, arg |-> PyNone,
         md |-> PyNone, fd |-> 0, i |-> 0, ret |-> PyNone]

(* The call has returned (or raised) ret *)
Returned(op, id, arg, ret) ==
    [pc |-> "done", op |-> op, id |-> id, arg |-> arg,
     md |-> PyNone, fd |-> 0, i |-> 0, ret |-> ret]

(* app.py:68-75; model_progress is bound by the first apply_model request
   (app.py:919-925), print is the built-in *)
(* builtins.print as the interpreter starts with it *)
BuiltinPrint == [t |-> "function", v |-> <<"print">>]

InitGlobals ==
    [operation_progress |-> [active |-> FALSE, operation |-> "", total |-> 0,
                             current |-> 0, message |-> ""],
     model_progress |-> [bound |-> FALSE, active |-> FALSE, message |-> ""],
     print |-> BuiltinPrint]

(* The launcher is not running *)
NoLauncher == <<>>

InitBeyondStore ==
    /\ globals = InitGlobals
    /\ manager = NoLauncher
    /\ host = NoLauncher
    /\ checker = NoLauncher

Init ==
    /\ fs = <<>>
    /\ clock = 0
    /\ th = [t \in Threads |-> Idle]
    /\ nextIno = 1
    /\ calls = 0
    /\ InitBeyondStore

(* Time passes *)
Tick ==
    /\ clock < MaxClock
    /\ clock' = clock + 1
    /\ UNCHANGED <<fs, th, nextIno, calls, beyondStore>>

---------------------------------------------------------------------------
(* Spec: one caller, one method call per step *)

Finish(op, id, arg, out) ==
    /\ calls < MaxCalls
    /\ calls' = calls + 1
    /\ fs' = out.fs
    /\ nextIno' = out.nextIno
    /\ th' = [th EXCEPT ![SeqThread] = Returned(op, id, arg, out.ret)]
    /\ UNCHANGED beyondStore

CreateProject ==
    \E name \in ProjectNames, description \in Descriptions, icon \in Icons :
    \E c1 \in clock..MaxClock : \E c2 \in c1..MaxClock :
        /\ Finish("create_project", ProjectId(name, clock),
                  <<name, description, icon>>,
                  create_project(fs, name, description, icon, clock, c1, c2,
                                 nextIno))
        /\ clock' = IF PathExists(fs, ProjectId(name, clock)) THEN clock ELSE c2

UpdateExcludedImages ==
    \E id \in ProjectIds, excluded \in ExcludedLists :
        /\ Finish("update_excluded_images", id, excluded,
                  update_excluded_images(fs, id, excluded, clock, nextIno))
        /\ UNCHANGED clock

UpdateWorkflowStatus ==
    \E id \in ProjectIds, updates \in StatusUpdates :
        /\ Finish("update_workflow_status", id, updates,
                  update_workflow_status(fs, id, updates, clock, nextIno))
        /\ UNCHANGED clock

UpdateSettings ==
    \E id \in ProjectIds, settings \in SettingsUpdates :
        /\ Finish("update_settings", id, settings,
                  update_settings(fs, id, settings, clock, nextIno))
        /\ UNCHANGED clock

AddReviewedImage ==
    \E id \in ProjectIds, name \in ImageNames :
        /\ Finish("add_reviewed_image", id, name,
                  add_reviewed_image(fs, id, name, clock, nextIno))
        /\ UNCHANGED clock

GetProject ==
    \E id \in ProjectIds :
        /\ Finish("get_project", id, PyNone,
                  Outcome(fs, get_project(fs, id), nextIno))
        /\ UNCHANGED clock

DeleteProject ==
    \E id \in ProjectIds :
        /\ Finish("delete_project", id, PyNone, delete_project(fs, id, nextIno))
        /\ UNCHANGED clock

GetProjectPath ==
    \E id \in ProjectIds, subfolder \in {"", "images"} :
        /\ Finish("get_project_path", id, subfolder,
                  Outcome(fs, get_project_path(fs, id, subfolder), nextIno))
        /\ UNCHANGED clock

ListProjects ==
    \E entries \in Orderings(DOMAIN fs) :
        /\ Finish("list_projects", <<>>, PyNone,
                  Outcome(fs, list_projects(fs, entries), nextIno))
        /\ UNCHANGED clock

Next ==
    \/ Tick
    \/ CreateProject
    \/ UpdateExcludedImages
    \/ UpdateWorkflowStatus
    \/ UpdateSettings
    \/ AddReviewedImage
    \/ GetProject
    \/ DeleteProject
    \/ GetProjectPath
    \/ ListProjects

Spec == Init /\ [][Next]_vars

---------------------------------------------------------------------------
(* SpecConc: request threads, one file-system call per step *)

Mutators == {"update_excluded_images", "update_workflow_status",
             "update_settings", "add_reviewed_image"}

(* The threads' inputs: one argument for each method, two display names
   that derive the same id within a second *)
ConcNames == {<<"a">>, <<"/", "a", " ">>}
ConcIds == {ProjectId(n, c) : n \in ConcNames, c \in 0..MaxClockConc}

ArgsOf(op) ==
    CASE op = "update_excluded_images" -> {<<PyStr("a.png")>>}
      [] op = "update_workflow_status" ->
            {[pdf_processed |-> True, pdf_count |-> PyInt(1)]}
      [] op = "update_settings" -> SettingsUpdates
      [] op = "add_reviewed_image" -> {"a.png"}

CanCall(t) == th[t].pc \in {"idle", "done"} /\ calls < MaxCallsConc

Begin(t, op, id, arg, pc) ==
    [pc |-> pc, op |-> op, id |-> id, arg |-> arg,
     md |-> PyNone, fd |-> 0, i |-> 0, ret |-> PyNone]

(* What a method answers when an exception reaches its handler:
   create_project has none, get_project answers None, the others False *)
OnError(op, e) ==
    CASE op = "create_project" -> Raise(e)
      [] op = "get_project" -> PyNone
      [] OTHER -> False

(* project_manager.py:32-43 *)
CallCreate(t) ==
    \E name \in ConcNames, description \in Descriptions, icon \in Icons :
    LET id == ProjectId(name, clock)
        arg == <<name, description, icon>> IN
        /\ CanCall(t)
        /\ calls' = calls + 1
        /\ th' = [th EXCEPT ![t] =
                    IF PathExists(fs, id)
                    THEN Returned("create_project", id, arg, Raise("ValueError"))
                    ELSE [Begin(t, "create_project", id, arg, "mkdir")
                             EXCEPT !.i = 1]]
        /\ UNCHANGED <<fs, clock, nextIno, beyondStore>>

(* project_manager.py:56-57, one folder *)
MkdirStep(t) ==
    /\ th[t].pc = "mkdir"
    /\ fs' = Mkdir(fs, th[t].id, Folders[th[t].i])
    /\ th' = [th EXCEPT ![t].i = @ + 1,
                        ![t].pc = IF th[t].i = Len(Folders) THEN "open" ELSE "mkdir"]
    /\ UNCHANGED <<clock, nextIno, calls, beyondStore>>

(* project_manager.py:100-103, 196-199, 222-225, 248-251 *)
CallMutator(t) ==
    \E op \in Mutators : \E id \in ConcIds, arg \in ArgsOf(op) :
        /\ CanCall(t)
        /\ calls' = calls + 1
        /\ th' = [th EXCEPT ![t] =
                    IF PathExists(fs, id) THEN Begin(t, op, id, arg, "load")
                    ELSE Returned(op, id, arg, False)]
        /\ UNCHANGED <<fs, clock, nextIno, beyondStore>>

(* project_manager.py:152-155 *)
CallGetProject(t) ==
    \E id \in ConcIds :
        /\ CanCall(t)
        /\ calls' = calls + 1
        /\ th' = [th EXCEPT ![t] =
                    IF PathExists(fs, id)
                    THEN Begin(t, "get_project", id, PyNone, "load")
                    ELSE Returned("get_project", id, PyNone, PyNone)]
        /\ UNCHANGED <<fs, clock, nextIno, beyondStore>>

(* project_manager.py:173-176 *)
CallDelete(t) ==
    \E id \in ConcIds :
        /\ CanCall(t)
        /\ calls' = calls + 1
        /\ th' = [th EXCEPT ![t] =
                    IF PathExists(fs, id)
                    THEN Begin(t, "delete_project", id, PyNone, "rmtree")
                    ELSE Returned("delete_project", id, PyNone, False)]
        /\ UNCHANGED <<fs, clock, nextIno, beyondStore>>

(* project_manager.py:280-288 *)
CallGetProjectPath(t) ==
    \E id \in ConcIds, subfolder \in {""} :
        /\ CanCall(t)
        /\ calls' = calls + 1
        /\ th' = [th EXCEPT ![t] =
                    Returned("get_project_path", id, subfolder,
                             get_project_path(fs, id, subfolder))]
        /\ UNCHANGED <<fs, clock, nextIno, beyondStore>>

(* _load_metadata as called at project_manager.py:106, 158, 202, 228, 254,
   and add_reviewed_image's early return for a name already there *)
LoadStep(t) ==
    LET c == th[t]
        metadata == IF PathExists(fs, c.id) THEN LoadMetadata(fs, c.id)
                    ELSE Raise("FileNotFoundError") IN
        /\ c.pc = "load"
        /\ th' = [th EXCEPT ![t] =
                    IF metadata.t = "raise"
                    THEN Returned(c.op, c.id, c.arg, OnError(c.op, metadata.v))
                    ELSE IF c.op = "get_project"
                    THEN Returned(c.op, c.id, c.arg, metadata)
                    ELSE IF ~NeedsSave(c.op, metadata, c.arg)
                    THEN Returned(c.op, c.id, c.arg, True)
                    ELSE [c EXCEPT !.pc = "open", !.md = metadata]]
        /\ UNCHANGED <<fs, clock, nextIno, calls, beyondStore>>

(* The metadata to save is fixed (lines 60-82, or the change to what was
   loaded, with now() read) and project.json is opened for writing
   (line 299) *)
OpenStep(t) ==
    LET c == th[t] IN
    \E c2 \in clock..(IF c.op = "create_project" THEN MaxClockConc ELSE clock) :
        /\ c.pc = "open"
        /\ clock' = c2
        /\ IF PathExists(fs, c.id)
           THEN /\ fs' = OpenW(fs, c.id, nextIno)
                /\ nextIno' = InoAfterOpen(fs, c.id, nextIno)
                /\ th' = [th EXCEPT ![t] =
                            [c EXCEPT !.pc = "write",
                                      !.fd = fs'[c.id].file.ino,
                                      !.md = IF c.op = "create_project"
                                             THEN Metadata(c.id, c.arg[1], c.arg[2],
                                                           c.arg[3], clock, c2)
                                             ELSE Modified(c.op, c.md, c.arg, clock)]]
           ELSE /\ th' = [th EXCEPT ![t] =
                            Returned(c.op, c.id, c.arg,
                                     OnError(c.op, "FileNotFoundError"))]
                /\ UNCHANGED <<fs, nextIno>>
        /\ UNCHANGED <<calls, beyondStore>>

(* json.dump and the close of the file (line 300); then the method returns *)
WriteStep(t) ==
    LET c == th[t] IN
        /\ c.pc = "write"
        /\ fs' = WriteClose(fs, c.id, c.fd, JsonDump(c.md))
        /\ th' = [th EXCEPT ![t] =
                    Returned(c.op, c.id, c.arg,
                             IF c.op = "create_project" THEN c.md ELSE True)]
        /\ UNCHANGED <<clock, nextIno, calls, beyondStore>>

(* project_manager.py:178-183 *)
RmTreeStep(t) ==
    LET c == th[t] IN
        /\ c.pc = "rmtree"
        /\ fs' = IF PathExists(fs, c.id) THEN RmTree(fs, c.id) ELSE fs
        /\ th' = [th EXCEPT ![t] =
                    Returned(c.op, c.id, c.arg,
                             IF PathExists(fs, c.id) THEN True ELSE False)]
        /\ UNCHANGED <<clock, nextIno, calls, beyondStore>>

ThreadStep(t) ==
    \/ CallCreate(t)
    \/ MkdirStep(t)
    \/ CallMutator(t)
    \/ CallGetProject(t)
    \/ CallDelete(t)
    \/ CallGetProjectPath(t)
    \/ LoadStep(t)
    \/ OpenStep(t)
    \/ WriteStep(t)
    \/ RmTreeStep(t)

(* Time passes *)
TickConc ==
    /\ clock < MaxClockConc
    /\ clock' = clock + 1
    /\ UNCHANGED <<fs, th, nextIno, calls, beyondStore>>

NextConc == TickConc \/ \E t \in Threads : ThreadStep(t)

SpecConc == Init /\ [][NextConc]_vars

---------------------------------------------------------------------------
(* SpecStages: the routes of app.py that report a pipeline stage to the
   store, one caller, one request per step *)

(* The files the stages leave in a project's folders *)
PdfPaths == {Entry("pdf_source", <<"x", ".", "p", "d", "f">>, TRUE),
             Entry("pdf_source", <<"y", ".", "p", "d", "f">>, TRUE)}
(* What a client can send to upload_pdf besides them: a PDF named in upper
   case and a file that is no PDF *)
OtherUploads == {Entry("pdf_source", <<"X", ".", "P", "D", "F">>, TRUE),
                 Entry("pdf_source", <<"n", ".", "t", "x", "t">>, TRUE)}
ImagePaths == {Entry("images", <<"p", "1", ".", "p", "n", "g">>, TRUE),
               Entry("images", <<"p", "2", ".", "p", "n", "g">>, TRUE)}
MaskPaths == {Entry("masks", <<"p", "1", "_", "m", "a", "s", "k", "_", "l", "a", "y", "e", "r", ".", "p", "n", "g">>, TRUE)}
CardPaths == {Entry("cards", <<"p", "1", "_", "c", "a", "r", "d", "_", "1", ".", "p", "n", "g">>, TRUE)}

StageIds == {ProjectId(<<"a">>, c) : c \in 0..MaxClock}

(* What the PATCH workflow route can be sent *)
StagePatches == { [images_extracted |-> PyInt(0)],
                  [model_applied |-> True],
                  [pdf_count |-> PyInt(2), total_images |-> PyInt(2)] }

(* file.save(...) and the files a processor writes *)
AddFiles(f, id, paths) == [f EXCEPT ![id].files = @ \cup paths]

(* str.endswith *)
EndsWith(name, tail) ==
    Len(name) >= Len(tail) /\ SubSeq(name, Len(name) - Len(tail) + 1, Len(name)) = tail

(* len(list(path.glob('*' + tail))): the entries whose name ends so, in the
   case it is written in (pathlib matches case on POSIX) *)
GlobCount(f, id, folder, tail) ==
    Cardinality({e \in IterDir(f, id, folder) : EndsWith(e.name, tail)})

NotFound == PyInt(404)
BadRequest == PyInt(400)

FinishStage(op, id, arg, out) ==
    /\ calls < MaxStageCalls
    /\ calls' = calls + 1
    /\ fs' = out.fs
    /\ nextIno' = out.nextIno
    /\ th' = [th EXCEPT ![SeqThread] = Returned(op, id, arg, out.ret)]
    /\ UNCHANGED beyondStore

(* app.py:349-366 *)
StageCreate ==
    \E name \in {<<"a">>} :
        /\ FinishStage("create_project", ProjectId(name, clock), <<>>,
                       create_project(fs, name, "d", "1.png", clock, clock,
                                      clock, nextIno))
        /\ UNCHANGED clock

(* app.py:808-880: a file whose name ends in .pdf in any case is saved under
   its name, its pages become images, the counts of the folders are
   reported *)
UploadPdf ==
    \E id \in StageIds, pdf \in PdfPaths \cup OtherUploads :
      \E pages \in SUBSET ImagePaths :
        /\ IF get_project(fs, id) = PyNone
           THEN FinishStage("upload_pdf", id, <<>>, Outcome(fs, NotFound, nextIno))
           ELSE IF ~EndsWith(StrLower(pdf.name), <<".", "p", "d", "f">>)
           THEN FinishStage("upload_pdf", id, <<>>, Outcome(fs, BadRequest, nextIno))
           ELSE LET saved == AddFiles(fs, id, {pdf} \cup pages)
                    image_count == count_files(saved, id, "images")
                    status_updates ==
                        [pdf_processed |-> True,
                         pdf_count |-> PyInt(GlobCount(saved, id, "pdf_source",
                                                       <<".", "p", "d", "f">>)),
                         images_extracted |-> PyInt(image_count),
                         total_images |-> PyInt(image_count)]
                IN  FinishStage("upload_pdf", id, status_updates,
                                update_workflow_status(saved, id, status_updates,
                                                       clock, nextIno))
        /\ UNCHANGED clock

(* app.py:889-971: the model writes masks for the images there are, then
   its thread reports them *)
ApplyModel ==
    \E id \in StageIds : \E masks \in SUBSET MaskPaths :
        /\ IF get_project(fs, id) = PyNone \/ "images" \notin fs[id].folders
           THEN FinishStage("apply_model", id, <<>>, Outcome(fs, NotFound, nextIno))
           ELSE LET written == AddFiles(fs, id,
                                   IF count_files(fs, id, "images") = 0
                                   THEN {} ELSE masks)
                    status_updates ==
                        [model_applied |-> True,
                         masks_extracted |->
                             PyInt(count_files(written, id, "masks"))]
                IN  FinishStage("apply_model", id, status_updates,
                                update_workflow_status(written, id, status_updates,
                                                       clock, nextIno))
        /\ UNCHANGED clock

(* app.py:567-640: cards are cut from the masks, their count is reported *)
ExtractMasks ==
    \E id \in StageIds : \E cards \in SUBSET CardPaths :
        /\ IF \/ get_project(fs, id) = PyNone
              \/ "masks" \notin fs[id].folders
              \/ GlobCount(fs, id, "masks", <<"_", "m", "a", "s", "k", "_", "l", "a", "y", "e", "r", ".", "p", "n", "g">>) = 0
           THEN FinishStage("extract_project_masks", id, <<>>,
                            Outcome(fs, NotFound, nextIno))
           ELSE LET written == AddFiles(fs, id, cards)
                    status_updates ==
                        [cards_extracted |->
                             PyInt(GlobCount(written, id, "cards", <<".", "p", "n", "g">>))]
                IN  FinishStage("extract_project_masks", id, status_updates,
                                update_workflow_status(written, id, status_updates,
                                                       clock, nextIno))
        /\ UNCHANGED clock

(* app.py:426-441 *)
PatchWorkflow ==
    \E id \in StageIds, status_updates \in StagePatches :
        /\ FinishStage("update_workflow_status", id, status_updates,
                       update_workflow_status(fs, id, status_updates, clock,
                                              nextIno))
        /\ UNCHANGED clock

NextStages ==
    \/ Tick
    \/ StageCreate
    \/ UploadPdf
    \/ ApplyModel
    \/ ExtractMasks
    \/ PatchWorkflow

SpecStages == Init /\ [][NextStages]_vars

---------------------------------------------------------------------------
(* SpecList: list_projects over the directories it can meet under
   projects_root *)

(* The directories: three of the ids create_project derives *)
ListIds == {ProjectId(<<"a">>, 0), ProjectId(<<"a", " ", "b">>, 0),
            ProjectId(<<"a">>, TicksPerSec)}

(* What there is at one id: no directory; a directory whose project.json is
   not written yet; one whose project.json is empty (opened, not written) or
   is one text over the end of another; one whose project.json is a
   document the store wrote, last modified at lm *)
DirChoices ==
    {[kind |-> k, lm |-> 0] : k \in {"none", "absent", "empty", "garbage"}}
        \cup {[kind |-> "json", lm |-> c] : c \in 0..MaxClock}

SidecarOf(id, choice, ino) ==
    IF choice.kind = "json"
    THEN LET text == JsonDump(Metadata(id, <<"a">>, "d", "1.png", 0, choice.lm))
         IN  [ino |-> ino, kind |-> "json", text |-> text,
              size |-> JsonSize(text, 0)]
    ELSE IF choice.kind = "absent" THEN NoFile
    ELSE [ino |-> ino, kind |-> choice.kind, text |-> JNull, size |-> 0]

(* Each project.json is a file of its own *)
ListInos ==
    CHOOSE ino \in [ListIds -> 1..Cardinality(ListIds)] :
        \A i, k \in ListIds : ino[i] = ino[k] => i = k

InitList ==
    \E choice \in [ListIds -> DirChoices] :
        /\ fs = [id \in {i \in ListIds : choice[i].kind # "none"} |->
                    [folders |-> {Folders[i] : i \in DOMAIN Folders},
                     file |-> SidecarOf(id, choice[id], ListInos[id]),
                     files |-> {}]]
        /\ clock = MaxClock
        /\ th = [t \in Threads |-> Idle]
        /\ nextIno = Cardinality(ListIds) + 1
        /\ calls = 0
        /\ InitBeyondStore

NextList == ListProjects

SpecList == InitList /\ [][NextList]_vars

---------------------------------------------------------------------------
(* SpecImages: get_images_list and count_files over the folders they can
   meet *)

ImagesId == ProjectId(<<"a">>, 0)
ImagesIds == {ImagesId, ProjectId(<<"a">>, TicksPerSec)}

(* What the images folder can hold: files with and without an image
   extension, in either case, a hidden file, a directory *)
ImagesEntries ==
    { Entry("images", <<"a", ".", "p", "n", "g">>, TRUE),
      Entry("images", <<"b", ".", "t", "x", "t">>, TRUE),
      Entry("images", <<"c", ".", "J", "P", "G">>, TRUE),
      Entry("images", <<"B", ".", "p", "n", "g">>, TRUE),
      Entry("images", <<"e", ".", "T", "i", "f", "f">>, TRUE),
      Entry("images", <<".", "p", "n", "g">>, TRUE),
      Entry("images", <<"d", ".", "p", "n", "g">>, FALSE) }

(* What the masks folder holds *)
MasksEntries == { Entry("masks", <<"m", ".", "p", "n", "g">>, TRUE) }

FolderTypes == {"images", "masks", "cards"}

InitImages ==
    /\ \E present \in BOOLEAN, made \in BOOLEAN : \E held \in SUBSET ImagesEntries :
          fs = IF ~present THEN <<>>
               ELSE ImagesId :>
                      [folders |-> {Folders[i] : i \in DOMAIN Folders}
                                      \ (IF made THEN {} ELSE {"images"}),
                       file |-> SidecarOf(ImagesId, [kind |-> "json", lm |-> 0], 1),
                       files |-> MasksEntries \cup (IF made THEN held ELSE {})]
    /\ clock = 0
    /\ th = [t \in Threads |-> Idle]
    /\ nextIno = 2
    /\ calls = 0
    /\ InitBeyondStore

GetImagesList ==
    \E id \in ImagesIds, folder_type \in FolderTypes :
        /\ Finish("get_images_list", id, folder_type,
                  Outcome(fs, get_images_list(fs, id, folder_type), nextIno))
        /\ UNCHANGED clock

CountFiles ==
    \E id \in ImagesIds, folder_type \in FolderTypes :
        /\ Finish("count_files", id, folder_type,
                  Outcome(fs, count_files(fs, id, folder_type), nextIno))
        /\ UNCHANGED clock

NextImages == GetImagesList \/ CountFiles

SpecImages == InitImages /\ [][NextImages]_vars

---------------------------------------------------------------------------
(* SpecCards: the classification and merge routes of app.py over the cards a
   project can hold, one caller, one request per step *)

MaskInfoCsv == <<"m", "a", "s", "k", "_", "i", "n", "f", "o", ".", "c", "s", "v">>
ClassificationsCsv == <<"c", "l", "a", "s", "s", "i", "f", "i", "c", "a", "t", "i", "o", "n", "s", ".", "c", "s", "v">>
MergedCsv == <<"m", "e", "r", "g", "e", "d", "_", "a", "n", "n", "o", "t", "a", "t", "i", "o", "n", "s", ".", "c", "s", "v">>

(* What the cards folder can hold before the requests: two cards, the table
   the extraction writes, a classifications.csv that none of these routes
   wrote *)
CardsEntries ==
    { Entry("cards", <<"c", "1", ".", "p", "n", "g">>, TRUE),
      Entry("cards", <<"c", "2", ".", "J", "P", "G">>, TRUE),
      Entry("cards", MaskInfoCsv, TRUE),
      Entry("cards", ClassificationsCsv, TRUE) }

(* path.exists() of a file of a project folder *)
FileExists(f, id, folder, name) ==
    \E e \in IterDir(f, id, folder) : e.name = name

(* app.py:1923: the entries of cards with a card's suffix *)
CardFiles(f, id) ==
    {e \in IterDir(f, id, "cards") :
        StrLower(Suffix(e.name)) \in
            {<<".", "p", "n", "g">>, <<".", "j", "p", "g">>, <<".", "j", "p", "e", "g">>}}

Ok == PyInt(200)
ServerError == PyInt(500)

(* What a route leaves and answers: the status code and the message *)
Reply(f, code, message) == [fs |-> f, ret |-> code, message |-> message]

(* app.py:1896-1983; classified: the cards the classifier gives a type, a
   position, a rotation and an image for *)
process_project_cards(f, id, classified) ==
    IF get_project(f, id) = PyNone THEN Reply(f, NotFound, "Project not found")
    ELSE IF "cards" \notin f[id].folders
    THEN Reply(f, NotFound, "No cards folder found in project")
    ELSE LET made == Mkdir(f, id, "cards_modified") IN
         IF CardFiles(f, id) = {} THEN Reply(made, NotFound, "No card images found")
         ELSE LET results == CardFiles(f, id) \cap classified
                  saved == AddFiles(made, id,
                               {Entry("cards_modified", e.name, TRUE) : e \in results})
              IN  IF results = {} THEN Reply(saved, Ok, "Successfully processed")
                  ELSE Reply(AddFiles(saved, id,
                                 {Entry("cards_modified", ClassificationsCsv, TRUE)}),
                             Ok, "Successfully processed")

(* app.py:2115-2165; columns: the classifications.csv found has the columns
   image, type and is_correct the merge selects (line 2146); without them
   the KeyError is answered as a 500 *)
merge_project_annotations(f, id, columns) ==
    IF get_project(f, id) = PyNone THEN Reply(f, NotFound, "Project not found")
    ELSE IF "cards" \notin f[id].folders
    THEN Reply(f, NotFound, "No cards folder found")
    ELSE IF ~FileExists(f, id, "cards", MaskInfoCsv)
    THEN Reply(f, NotFound, "mask_info.csv not found")
    ELSE IF ~FileExists(f, id, "cards", ClassificationsCsv)
    THEN Reply(f, NotFound, "classifications.csv not found")
    ELSE IF ~columns THEN Reply(f, ServerError, "KeyError")
    ELSE Reply(AddFiles(f, id, {Entry("cards", MergedCsv, TRUE)}),
               Ok, "Successfully merged")

InitCards ==
    /\ \E made \in BOOLEAN : \E held \in SUBSET CardsEntries :
          fs = ImagesId :>
                 [folders |-> {Folders[i] : i \in DOMAIN Folders}
                                 \ (IF made THEN {} ELSE {"cards"}),
                  file |-> SidecarOf(ImagesId, [kind |-> "json", lm |-> 0], 1),
                  files |-> IF made THEN held ELSE {}]
    /\ clock = 0
    /\ th = [t \in Threads |-> Idle]
    /\ nextIno = 2
    /\ calls = 0
    /\ InitBeyondStore

ProcessCards ==
    \E id \in ImagesIds : \E classified \in SUBSET CardsEntries :
        LET reply == process_project_cards(fs, id, classified) IN
        /\ FinishStage("process_project_cards", id, reply.message,
                       Outcome(reply.fs, reply.ret, nextIno))
        /\ UNCHANGED clock

MergeAnnotations ==
    \E id \in ImagesIds, columns \in BOOLEAN :
        LET reply == merge_project_annotations(fs, id, columns) IN
        /\ FinishStage("merge_project_annotations", id, reply.message,
                       Outcome(reply.fs, reply.ret, nextIno))
        /\ UNCHANGED clock

NextCards == ProcessCards \/ MergeAnnotations

SpecCards == InitCards /\ [][NextCards]_vars

---------------------------------------------------------------------------
(* SpecRoutes: the extract_project_masks and apply_model routes of app.py as
   the threads of the server run them (app.run(threaded=True), app.py:2528-
   2532): a request is a thread, apply_model starts one more for the model
   run, and all of them share the module's globals and builtins.print *)

Workers == {"w1", "w2"}

RouteIds == {ImagesId, ProjectId(<<"b">>, 0)}

(* app.py:598-609: the closure over total_masks and original_print *)
progress_print(total_masks, original_print) ==
    [t |-> "function", v |-> <<"progress_print", total_masks, original_print>>]

(* app.py:77-86 *)
update_operation_progress(operation, current, total, message) ==
    [active |-> TRUE, operation |-> operation, total |-> total,
     current |-> current, message |-> message]

(* app.py:88-96 *)
clear_operation_progress == InitGlobals.operation_progress

(* print('Processing mask 1/n') through the function builtins.print is
   bound to: a progress_print updates the progress and calls the
   original_print it closed over (app.py:598-609) *)
RECURSIVE CallPrint(_, _)
CallPrint(print, progress) ==
    IF print.v[1] = "print" THEN progress
    ELSE CallPrint(print.v[3],
                   update_operation_progress("extract_masks", 1, print.v[2],
                                             "Extracting mask"))

Started(ret, message, progress, total_masks) ==
    [ret |-> ret, message |-> message, operation_progress |-> progress,
     total_masks |-> total_masks]

(* Variant: the progress is initialized before the masks are counted *)
extract_project_masks_eager(f, progress, id) ==
    LET begun == update_operation_progress("extract_masks", 0, 0,
                                           "Starting extraction...") IN
    IF get_project(f, id) = PyNone
    THEN Started(NotFound, "Project not found", begun, 0)
    ELSE IF "masks" \notin f[id].folders
    THEN Started(NotFound, "Project masks folder not found", begun, 0)
    ELSE LET total_masks == GlobCount(f, id, "masks", <<"_", "m", "a", "s", "k", "_", "l", "a", "y", "e", "r", ".", "p", "n", "g">>) IN
         IF total_masks = 0
         THEN Started(NotFound, "No mask files found. Apply a model first.", begun, 0)
         ELSE Started(PyNone, "", begun, total_masks)

(* app.py:567-591: the request up to the start of the extraction; ret is
   None when it goes on *)
extract_project_masks(f, progress, id) ==
    IF get_project(f, id) = PyNone
    THEN Started(NotFound, "Project not found", progress, 0)
    ELSE IF "masks" \notin f[id].folders
    THEN Started(NotFound, "Project masks folder not found", progress, 0)
    ELSE LET total_masks == GlobCount(f, id, "masks", <<"_", "m", "a", "s", "k", "_", "l", "a", "y", "e", "r", ".", "p", "n", "g">>) IN
         IF total_masks = 0
         THEN Started(NotFound, "No mask files found. Apply a model first.",
                      progress, 0)
         ELSE Started(PyNone, "",
                      update_operation_progress("extract_masks", 0, total_masks,
                                                "Starting extraction..."),
                      total_masks)

Ran(f, ino, ret, message, progress) ==
    [fs |-> f, nextIno |-> ino, ret |-> ret, message |-> message,
     model_progress |-> progress]

(* Variant: the stage is reported whether the run raised or not *)
run_model_reporting(f, progress, id, raised, now, ino) ==
    LET status_updates ==
            [model_applied |-> True,
             masks_extracted |-> PyInt(count_files(f, id, "masks"))]
        out == update_workflow_status(f, id, status_updates, now, ino)
        message == IF raised THEN "Error" ELSE "result"
    IN  Ran(out.fs, out.nextIno, out.ret, message,
            [progress EXCEPT !.message = message, !.active = FALSE])

(* app.py:935-964: what the model thread does once apply_model_to_project
   has returned or raised *)
run_model(f, progress, id, raised, now, ino) ==
    IF raised
    THEN Ran(f, ino, PyNone, "Error",
             [progress EXCEPT !.message = "Error", !.active = FALSE])
    ELSE LET status_updates ==
                 [model_applied |-> True,
                  masks_extracted |-> PyInt(count_files(f, id, "masks"))]
             out == update_workflow_status(f, id, status_updates, now, ino)
         IN  Ran(out.fs, out.nextIno, out.ret, "result",
                 [progress EXCEPT !.message = "result", !.active = FALSE])

(* One project, with or without its masks folder, holding some of the files
   the stages write *)
InitRoutes ==
    /\ \E made \in BOOLEAN : \E held \in SUBSET MaskPaths :
          fs = ImagesId :>
                 [folders |-> {Folders[i] : i \in DOMAIN Folders}
                                 \ (IF made THEN {} ELSE {"masks"}),
                  file |-> SidecarOf(ImagesId, [kind |-> "json", lm |-> 0], 1),
                  files |-> IF made THEN held ELSE {}]
    /\ clock = 0
    /\ th = [t \in Threads \cup Workers |-> Idle]
    /\ nextIno = 2
    /\ calls = 0
    /\ InitBeyondStore

Free(t) == th[t].pc \in {"idle", "done"}

(* app.py:567-591 *)
ExtractRequest(t) ==
    \E id \in RouteIds :
        LET started == extract_project_masks(fs, globals.operation_progress, id) IN
        /\ Free(t)
        /\ calls < MaxRouteCalls
        /\ calls' = calls + 1
        /\ globals' = [globals EXCEPT !.operation_progress = started.operation_progress]
        /\ th' = [th EXCEPT ![t] =
                     IF started.ret = PyNone
                     THEN [Begin(t, "extract_project_masks", id, "", "original_print")
                              EXCEPT !.i = started.total_masks]
                     ELSE Returned("extract_project_masks", id, started.message,
                                   started.ret)]
        /\ UNCHANGED <<fs, clock, nextIno, manager, host, checker>>

(* app.py:596: original_print = builtins.print *)
SavePrint(t) ==
    /\ th[t].pc = "original_print"
    /\ th' = [th EXCEPT ![t].md = globals.print, ![t].pc = "progress_print"]
    /\ UNCHANGED <<fs, clock, nextIno, calls, beyondStore>>

(* app.py:611: builtins.print = progress_print *)
PatchPrint(t) ==
    /\ th[t].pc = "progress_print"
    /\ globals' = [globals EXCEPT !.print = progress_print(th[t].i, th[t].md)]
    /\ th' = [th EXCEPT ![t].pc = "extract_masks_from_project"]
    /\ UNCHANGED <<fs, clock, nextIno, calls, manager, host, checker>>

(* app.py:613-618: the extractor writes cards, may print its progress
   through builtins.print, and returns or raises *)
ExtractCards(t) ==
    \E cards \in SUBSET CardPaths, printed \in BOOLEAN, raised \in BOOLEAN :
        /\ th[t].pc = "extract_masks_from_project"
        /\ fs' = AddFiles(fs, th[t].id, cards)
        /\ globals' = IF printed
                      THEN [globals EXCEPT !.operation_progress =
                                               CallPrint(globals.print, @)]
                      ELSE globals
        /\ th' = [th EXCEPT ![t].pc = IF raised THEN "finally_raised" ELSE "finally"]
        /\ UNCHANGED <<clock, nextIno, calls, manager, host, checker>>

(* app.py:619-622: finally *)
RestorePrint(t) ==
    /\ th[t].pc \in {"finally", "finally_raised"}
    /\ globals' = [globals EXCEPT !.print = th[t].md,
                                  !.operation_progress = clear_operation_progress]
    /\ th' = [th EXCEPT ![t].pc = IF th[t].pc = "finally" THEN "card_count"
                                  ELSE "except"]
    /\ UNCHANGED <<fs, clock, nextIno, calls, manager, host, checker>>

(* app.py:624-633 *)
ReportCards(t) ==
    LET status_updates ==
            [cards_extracted |->
                 PyInt(GlobCount(fs, th[t].id, "cards", <<".", "p", "n", "g">>))]
        out == update_workflow_status(fs, th[t].id, status_updates, clock, nextIno)
    IN  /\ th[t].pc = "card_count"
        /\ fs' = out.fs
        /\ nextIno' = out.nextIno
        /\ th' = [th EXCEPT ![t] =
                     Returned("extract_project_masks", th[t].id, "result", Ok)]
        /\ UNCHANGED <<clock, calls, beyondStore>>

(* app.py:635-639 *)
ExtractFails(t) ==
    /\ th[t].pc = "except"
    /\ globals' = [globals EXCEPT !.operation_progress = clear_operation_progress]
    /\ th' = [th EXCEPT ![t] =
                 Returned("extract_project_masks", th[t].id, "Error", ServerError)]
    /\ UNCHANGED <<fs, clock, nextIno, calls, manager, host, checker>>

(* app.py:887-972: the request binds model_progress and starts the thread *)
ApplyRequest(t) ==
    \E id \in RouteIds :
        /\ Free(t)
        /\ calls < MaxRouteCalls
        /\ calls' = calls + 1
        /\ IF get_project(fs, id) = PyNone
           THEN /\ th' = [th EXCEPT ![t] =
                             Returned("apply_model", id, "Project not found", NotFound)]
                /\ UNCHANGED globals
           ELSE IF "images" \notin fs[id].folders
           THEN /\ th' = [th EXCEPT ![t] =
                             Returned("apply_model", id,
                                      "Project images folder not found", NotFound)]
                /\ UNCHANGED globals
           ELSE \E w \in Workers :
                /\ Free(w)
                /\ w = "w2" => ~Free("w1")
                /\ globals' = [globals EXCEPT !.model_progress =
                                   [bound |-> TRUE, active |-> TRUE,
                                    message |-> "Starting..."]]
                /\ th' = [th EXCEPT
                             ![t] = Returned("apply_model", id,
                                             "Model processing started", Ok),
                             ![w] = Begin(w, "run_model", id, "",
                                          "apply_model_to_project")]
        /\ UNCHANGED <<fs, clock, nextIno, manager, host, checker>>

(* app.py:938-948: the model writes masks, may report through
   update_progress (927-932), and returns or raises *)
ApplyModelToProject(w) ==
    \E masks \in SUBSET MaskPaths, reported \in BOOLEAN, raised \in BOOLEAN :
        /\ th[w].pc = "apply_model_to_project"
        /\ fs' = AddFiles(fs, th[w].id, masks)
        /\ globals' = IF reported
                      THEN [globals EXCEPT !.model_progress.message = "Processing"]
                      ELSE globals
        /\ th' = [th EXCEPT ![w].pc = IF raised THEN "except" ELSE "mask_count"]
        /\ UNCHANGED <<clock, nextIno, calls, manager, host, checker>>

(* app.py:950-964 *)
RunModel(w) ==
    LET ran == run_model(fs, globals.model_progress, th[w].id,
                         th[w].pc = "except", clock, nextIno) IN
    /\ th[w].op = "run_model"
    /\ th[w].pc \in {"mask_count", "except"}
    /\ fs' = ran.fs
    /\ nextIno' = ran.nextIno
    /\ globals' = [globals EXCEPT !.model_progress = ran.model_progress]
    /\ th' = [th EXCEPT ![w] = Returned("run_model", th[w].id, ran.message, ran.ret)]
    /\ UNCHANGED <<clock, calls, manager, host, checker>>

NextRoutes ==
    \/ \E t \in Threads :
          \/ ExtractRequest(t)
          \/ SavePrint(t)
          \/ PatchPrint(t)
          \/ ExtractCards(t)
          \/ RestorePrint(t)
          \/ ReportCards(t)
          \/ ExtractFails(t)
          \/ ApplyRequest(t)
    \/ \E w \in Workers :
          \/ ApplyModelToProject(w)
          \/ RunModel(w)

SpecRoutes == InitRoutes /\ [][NextRoutes]_vars

---------------------------------------------------------------------------
(* SpecLauncher: the launcher's AppManager (launcher/app_manager.py), called
   from the GUI's event loop, one method call per step *)

KnownApps == {"PyPotteryLens", "PyPotteryLayout"}
CalledApps == KnownApps \cup {"Unknown"}

(* app_manager.py:24-43: the fields of AppInfo the methods below use;
   process is the pid of the Popen object, 0 for None *)
AppInfo(installed) == [installed |-> installed, is_running |-> FALSE, process |-> 0]

(* app_id in self._processes *)
Tracked(m, app_id) == app_id \in DOMAIN m.processes

(* proc.poll() is None *)
Alive(h, pid) == h.procs[pid].alive

(* del self._processes[app_id] *)
Untrack(processes, app_id) == [k \in DOMAIN processes \ {app_id} |-> processes[k]]

(* What a method leaves and returns, and the message it reports *)
Answer(m, h, ret, msg) == [manager |-> m, host |-> h, ret |-> ret, msg |-> msg]

(* Variant: no look at the process that is tracked *)
launch_app_unchecked(m, h, app_id, port_in_use, popen_ok) ==
    IF app_id \notin DOMAIN m.apps THEN Answer(m, h, False, "Unknown application")
    ELSE IF ~m.apps[app_id].installed THEN Answer(m, h, False, "is not installed")
    ELSE IF port_in_use THEN Answer(m, h, False, "Port is already in use")
    ELSE IF app_id \notin h.installed THEN Answer(m, h, False, "Entry script not found")
    ELSE IF ~popen_ok THEN Answer(m, h, False, "Failed to start")
    ELSE LET pid == Len(h.procs) + 1 IN
         Answer([apps |-> [m.apps EXCEPT ![app_id].is_running = TRUE,
                                         ![app_id].process = pid],
                 processes |-> (app_id :> pid) @@ m.processes],
                [h EXCEPT !.procs = Append(@, [app |-> app_id, alive |-> TRUE])],
                True, "started")

(* app_manager.py:390-479 *)
launch_app(m, h, app_id, port_in_use, popen_ok) ==
    IF app_id \notin DOMAIN m.apps THEN Answer(m, h, False, "Unknown application")
    ELSE IF ~m.apps[app_id].installed THEN Answer(m, h, False, "is not installed")
    ELSE IF Tracked(m, app_id) /\ Alive(h, m.processes[app_id])
    THEN Answer(m, h, True, "is already running")
    ELSE IF port_in_use THEN Answer(m, h, False, "Port is already in use")
    ELSE IF app_id \notin h.installed THEN Answer(m, h, False, "Entry script not found")
    ELSE IF ~popen_ok THEN Answer(m, h, False, "Failed to start")
    ELSE LET pid == Len(h.procs) + 1 IN
         Answer([apps |-> [m.apps EXCEPT ![app_id].is_running = TRUE,
                                         ![app_id].process = pid],
                 processes |-> (app_id :> pid) @@ m.processes],
                [h EXCEPT !.procs = Append(@, [app |-> app_id, alive |-> TRUE])],
                True, "started")

(* Variant: the entry is deleted, is_running is left as it was *)
stop_app_flag(m, h, app_id, stops) ==
    IF app_id \notin DOMAIN m.apps THEN Answer(m, h, False, "")
    ELSE IF ~Tracked(m, app_id) THEN Answer(m, h, False, "is not running")
    ELSE IF ~stops THEN Answer(m, h, False, "Failed to stop")
    ELSE Answer([apps |-> m.apps, processes |-> Untrack(m.processes, app_id)],
                [h EXCEPT !.procs[m.processes[app_id]].alive = FALSE],
                True, "stopped")

(* app_manager.py:481-522; stops: terminate() and the waits end with the
   process gone; otherwise one of them raised *)
stop_app(m, h, app_id, stops) ==
    IF app_id \notin DOMAIN m.apps THEN Answer(m, h, False, "")
    ELSE IF ~Tracked(m, app_id) THEN Answer(m, h, False, "is not running")
    ELSE IF ~stops THEN Answer(m, h, False, "Failed to stop")
    ELSE Answer([apps |-> [m.apps EXCEPT ![app_id].is_running = FALSE,
                                         ![app_id].process = 0],
                 processes |-> Untrack(m.processes, app_id)],
                [h EXCEPT !.procs[m.processes[app_id]].alive = FALSE],
                True, "stopped")

(* app_manager.py:362-388; rmtree_ok: shutil.rmtree returns, otherwise it
   raises and the exception leaves the method *)
uninstall_app(m, h, app_id, stops, rmtree_ok) ==
    IF app_id \notin DOMAIN m.apps THEN Answer(m, h, False, "")
    ELSE LET stopped == IF Tracked(m, app_id) THEN stop_app(m, h, app_id, stops)
                        ELSE Answer(m, h, False, "")
             sm == stopped.manager
             sh == stopped.host IN
         IF app_id \in sh.installed /\ ~rmtree_ok
         THEN Answer(sm, sh, Raise("OSError"), stopped.msg)
         ELSE Answer([sm EXCEPT !.apps[app_id].installed = FALSE],
                     [sh EXCEPT !.installed = @ \ {app_id}],
                     True, "uninstalled")

(* app_manager.py:524-549 *)
get_app_status(m, h, app_id) ==
    IF app_id \notin DOMAIN m.apps
    THEN Answer(m, h, [t |-> "AppStatus", v |-> [is_running |-> FALSE, pid |-> 0]], "")
    ELSE IF ~Tracked(m, app_id)
    THEN Answer(m, h, [t |-> "AppStatus", v |-> [is_running |-> FALSE, pid |-> 0]], "")
    ELSE IF Alive(h, m.processes[app_id])
    THEN Answer(m, h, [t |-> "AppStatus",
                       v |-> [is_running |-> TRUE, pid |-> m.processes[app_id]]], "")
    ELSE Answer([apps |-> [m.apps EXCEPT ![app_id].is_running = FALSE],
                 processes |-> Untrack(m.processes, app_id)],
                h, [t |-> "AppStatus", v |-> [is_running |-> FALSE, pid |-> 0]], "")

(* app_manager.py:556-567; the ids returned, as a set *)
get_running_apps(m, h) ==
    LET running == {k \in DOMAIN m.processes : Alive(h, m.processes[k])}
        ended == DOMAIN m.processes \ running IN
    Answer([apps |-> [k \in DOMAIN m.apps |->
                         IF k \in ended THEN [m.apps[k] EXCEPT !.is_running = FALSE]
                         ELSE m.apps[k]],
            processes |-> [k \in running |-> m.processes[k]]],
           h, [t |-> "list", v |-> running], "")

(* app_manager.py:197-360; result: the archive is installed; or the
   download fails; or the old version is removed (lines 296-300) and the
   extraction fails *)
download_app(m, h, app_id, result) ==
    IF app_id \notin DOMAIN m.apps THEN Answer(m, h, False, "Unknown application")
    ELSE CASE result = "installed" ->
                Answer([m EXCEPT !.apps[app_id].installed = TRUE],
                       [h EXCEPT !.installed = @ \cup {app_id}],
                       True, "installed successfully")
           [] result = "download failed" -> Answer(m, h, False, "Download failed")
           [] result = "extraction failed" ->
                Answer(m, [h EXCEPT !.installed = @ \ {app_id}],
                       False, "Installation failed")

(* app_manager.py:74-89, 117-121: installed is read from the disk *)
InitLauncher ==
    /\ fs = <<>>
    /\ clock = 0
    /\ th = [t \in Threads |-> Idle]
    /\ nextIno = 1
    /\ calls = 0
    /\ globals = InitGlobals
    /\ checker = NoLauncher
    /\ \E disk \in SUBSET KnownApps :
          /\ host = [procs |-> <<>>, installed |-> disk]
          /\ manager = [apps |-> [k \in KnownApps |-> AppInfo(k \in disk)],
                        processes |-> <<>>]

FinishLauncher(op, app_id, answer) ==
    /\ calls < MaxLauncherCalls
    /\ calls' = calls + 1
    /\ manager' = answer.manager
    /\ host' = answer.host
    /\ th' = [th EXCEPT ![SeqThread] = Returned(op, app_id, answer.msg, answer.ret)]

LaunchApp ==
    \E app_id \in CalledApps, port_in_use \in BOOLEAN, popen_ok \in BOOLEAN :
        /\ popen_ok => Len(host.procs) < MaxProcs
        /\ FinishLauncher("launch_app", app_id,
                          launch_app(manager, host, app_id, port_in_use, popen_ok))
        /\ UNCHANGED <<fs, clock, nextIno, globals, checker>>

StopApp ==
    \E app_id \in CalledApps, stops \in BOOLEAN :
        /\ FinishLauncher("stop_app", app_id, stop_app(manager, host, app_id, stops))
        /\ UNCHANGED <<fs, clock, nextIno, globals, checker>>

UninstallApp ==
    \E app_id \in CalledApps, stops \in BOOLEAN, rmtree_ok \in BOOLEAN :
        /\ FinishLauncher("uninstall_app", app_id,
                          uninstall_app(manager, host, app_id, stops, rmtree_ok))
        /\ UNCHANGED <<fs, clock, nextIno, globals, checker>>

GetAppStatus ==
    \E app_id \in CalledApps :
        /\ FinishLauncher("get_app_status", app_id,
                          get_app_status(manager, host, app_id))
        /\ UNCHANGED <<fs, clock, nextIno, globals, checker>>

GetRunningApps ==
    /\ FinishLauncher("get_running_apps", "", get_running_apps(manager, host))
    /\ UNCHANGED <<fs, clock, nextIno, globals, checker>>

DownloadApp ==
    \E app_id \in CalledApps :
    \E result \in {"installed", "download failed", "extraction failed"} :
        /\ FinishLauncher("download_app", app_id,
                          download_app(manager, host, app_id, result))
        /\ UNCHANGED <<fs, clock, nextIno, globals, checker>>



(* A child process ends by itself *)
ProcessExits ==
    \E pid \in DOMAIN host.procs :
        /\ host.procs[pid].alive
        /\ host' = [host EXCEPT !.procs[pid].alive = FALSE]
        /\ UNCHANGED <<fs, clock, th, nextIno, calls, globals, manager, checker>>

NextLauncher ==
    \/ LaunchApp
    \/ StopApp
    \/ UninstallApp
    \/ GetAppStatus
    \/ GetRunningApps
    \/ DownloadApp
    \/ ProcessExits

SpecLauncher == InitLauncher /\ [][NextLauncher]_vars

---------------------------------------------------------------------------
(* SpecVersions: UpdateChecker.compare_versions (launcher/update_checker.py)
   over version strings as the launcher meets them *)

(* str.lstrip("v") *)
RECURSIVE LStripV(_)
LStripV(s) == IF s # <<>> /\ Head(s) = "v" THEN LStripV(Tail(s)) ELSE s

(* str.split("."): the pieces between the dots, empty ones included *)
RECURSIVE Split(_, _)
Split(s, piece) ==
    IF s = <<>> THEN <<piece>>
    ELSE IF Head(s) = "." THEN <<piece>> \o Split(Tail(s), <<>>)
    ELSE Split(Tail(s), Append(piece, Head(s)))

IsDigit(c) == c \in {"0", "1", "2", "3", "4", "5", "6", "7", "8", "9"}

(* int(x) of a piece: ValueError unless it is one digit or more *)
IsInt(x) == x # <<>> /\ \A i \in DOMAIN x : IsDigit(x[i])

RECURSIVE ToInt(_)
ToInt(x) ==
    IF x = <<>> THEN 0
    ELSE 10 * ToInt(SubSeq(x, 1, Len(x) - 1)) + (Ord(x[Len(x)]) - 48)

(* update_checker.py:227-230 *)
Pad(parts, n) == [i \in 1..n |-> IF i <= Len(parts) THEN parts[i] ELSE 0]

(* update_checker.py:232-238 *)
RECURSIVE CompareParts(_, _)
CompareParts(c, l) ==
    IF c = <<>> THEN 0
    ELSE IF Head(c) < Head(l) THEN -1
    ELSE IF Head(c) > Head(l) THEN 1
    ELSE CompareParts(Tail(c), Tail(l))

(* Variant: the versions are compared as strings in every case *)
compare_versions_str(current_version, latest_version) ==
    LET current == Strip(LStripV(current_version))
        latest == Strip(LStripV(latest_version)) IN
    IF StrLess(current, latest) THEN -1
    ELSE IF StrLess(latest, current) THEN 1 ELSE 0

(* update_checker.py:204-246 *)
compare_versions(current_version, latest_version) ==
    LET current == Strip(LStripV(current_version))
        latest == Strip(LStripV(latest_version))
        current_split == Split(current, <<>>)
        latest_split == Split(latest, <<>>) IN
    IF current \in {<<"m", "a", "i", "n">>, <<"m", "a", "s", "t", "e", "r">>}
    THEN (IF latest # <<>> THEN -1 ELSE 0)
    ELSE IF /\ \A i \in DOMAIN current_split : IsInt(current_split[i])
            /\ \A i \in DOMAIN latest_split : IsInt(latest_split[i])
    THEN LET n == IF Len(current_split) < Len(latest_split)
                  THEN Len(latest_split) ELSE Len(current_split)
             current_parts == Pad([i \in DOMAIN current_split |->
                                      ToInt(current_split[i])], n)
             latest_parts == Pad([i \in DOMAIN latest_split |->
                                     ToInt(latest_split[i])], n)
         IN  CompareParts(current_parts, latest_parts)
    ELSE IF StrLess(current, latest) THEN -1
    ELSE IF StrLess(latest, current) THEN 1
    ELSE 0

(* Installed and released versions: tags with and without the v, of
   different lengths, the branch names download_app records
   (app_manager.py:263, 338), a suffix, stray blanks, nothing *)
Versions ==
    { <<"1", ".", "0">>,
      <<"v", "1", ".", "0">>,
      <<"1">>,
      <<"1", ".", "0", ".", "1">>,
      <<"1", ".", "1", "0">>,
      <<"1", ".", "9">>,
      <<"2">>,
      <<"m", "a", "i", "n">>,
      <<"v", "m", "a", "s", "t", "e", "r">>,
      <<>>,
      <<"1", ".", "0", "b">>,
      <<"1", ".", "0", " ">>,
      <<"v">> }

(* Two versions are to be compared, in either order *)
InitVersions ==
    /\ fs = <<>>
    /\ clock = 0
    /\ nextIno = 1
    /\ calls = 0
    /\ InitBeyondStore
    /\ \E a \in Versions, b \in Versions :
          th = [t \in Threads |->
                   Begin(t, "compare_versions", <<>>,
                         IF t = SeqThread THEN <<a, b>> ELSE <<b, a>>, "call")]

CompareVersions(t) ==
    /\ th[t].pc = "call"
    /\ calls' = calls + 1
    /\ th' = [th EXCEPT ![t] =
                Returned("compare_versions", <<>>, th[t].arg,
                         compare_versions(th[t].arg[1], th[t].arg[2]))]
    /\ UNCHANGED <<fs, clock, nextIno, beyondStore>>

NextVersions == \E t \in Threads : CompareVersions(t)

SpecVersions == InitVersions /\ [][NextVersions]_vars

---------------------------------------------------------------------------
(* SpecReleases: UpdateChecker.get_latest_release and its cache
   (launcher/update_checker.py), one caller; the clock counts hours and the
   answers of the GitHub API are inputs *)

CACHE_DURATION_HOURS == 2

RepoKeys == {"lrncrd/PyPotteryLens", "lrncrd/PyPotteryLayout"}

(* An entry of the API's release list *)
Release(tag_name, prerelease, draft) ==
    [tag_name |-> tag_name, prerelease |-> prerelease, draft |-> draft]

(* ReleaseInfo(...) of an entry *)
ReleaseInfo(release) ==
    [t |-> "ReleaseInfo",
     v |-> [tag_name |-> release.tag_name, prerelease |-> release.prerelease]]

(* What _make_request can answer, newest release first: no answer, no
   release, releases with and without a pre-release or a draft ahead *)
Answers ==
    { [ok |-> FALSE, releases |-> <<>>],
      [ok |-> TRUE, releases |-> <<>>],
      [ok |-> TRUE, releases |-> <<Release("v1", FALSE, FALSE)>>],
      [ok |-> TRUE, releases |-> <<Release("v2b", TRUE, FALSE),
                                   Release("v1", FALSE, FALSE)>>],
      [ok |-> TRUE, releases |-> <<Release("v3", FALSE, TRUE),
                                   Release("v2b", TRUE, FALSE)>>] }

(* update_checker.py:78-84 *)
is_cache_valid(c, repo_key, now) ==
    IF repo_key \notin DOMAIN c.last_check THEN FALSE
    ELSE now - c.last_check[repo_key] < CACHE_DURATION_HOURS

(* update_checker.py:133-137: the first entry the loop does not skip, 0 when
   it skips them all *)
RECURSIVE FirstKept(_, _, _)
FirstKept(releases, include_prerelease, i) ==
    IF i > Len(releases) THEN 0
    ELSE IF releases[i].draft THEN FirstKept(releases, include_prerelease, i + 1)
    ELSE IF ~include_prerelease /\ releases[i].prerelease
    THEN FirstKept(releases, include_prerelease, i + 1)
    ELSE i

Latest(c, ret) == [checker |-> c, ret |-> ret]

(* update_checker.py:107-167; answer is what _make_request returns if it is
   called *)
get_latest_release(c, repo_key, include_prerelease, answer, now) ==
    IF is_cache_valid(c, repo_key, now) /\ repo_key \in DOMAIN c.releases
    THEN Latest(c, c.releases[repo_key])
    ELSE IF ~answer.ok \/ answer.releases = <<>> THEN Latest(c, PyNone)
    ELSE LET i == FirstKept(answer.releases, include_prerelease, 1) IN
         IF i = 0 THEN Latest(c, PyNone)
         ELSE LET release_info == ReleaseInfo(answer.releases[i]) IN
              Latest([releases |-> (repo_key :> release_info) @@ c.releases,
                      last_check |-> (repo_key :> now) @@ c.last_check],
                     release_info)

(* update_checker.py:50-68: no cache file yet *)
InitReleases ==
    /\ fs = <<>>
    /\ clock = 0
    /\ th = [t \in Threads |-> Idle]
    /\ nextIno = 1
    /\ calls = 0
    /\ globals = InitGlobals
    /\ manager = NoLauncher
    /\ host = NoLauncher
    /\ checker = [releases |-> <<>>, last_check |-> <<>>]

GetLatestRelease ==
    \E repo_key \in RepoKeys, include_prerelease \in BOOLEAN, answer \in Answers :
        LET latest == get_latest_release(checker, repo_key, include_prerelease,
                                         answer, clock) IN
        /\ calls < MaxLauncherCalls
        /\ calls' = calls + 1
        /\ checker' = latest.checker
        /\ th' = [th EXCEPT ![SeqThread] =
                     Returned("get_latest_release", repo_key,
                              PyBool(include_prerelease), latest.ret)]
        /\ UNCHANGED <<fs, clock, nextIno, globals, manager, host>>

NextReleases == Tick \/ GetLatestRelease

SpecReleases == InitReleases /\ [][NextReleases]_vars

---------------------------------------------------------------------------
(* Properties *)

SeqNow == th[SeqThread]
SeqAfter == th'[SeqThread]

(* The step is a call of op by the single caller of Spec *)
SeqCall(op) == calls' = calls + 1 /\ SeqAfter.op = op

IsRecord(x) == x.t = "dict"
IsRaise(x, e) == x.t = "raise" /\ x.v = e

Field(md, key) == md.v[key].v
Status(md, key) == md.v["workflow_status"].v[key]
Setting(md, key) == md.v["settings"].v[key]
ReviewedNames(md) == Status(md, "reviewed_images").v
Occurrences(x, s) == Cardinality({i \in DOMAIN s : s[i] = x})

(* C1: a create_project whose derived id already names a directory raises
   ValueError and changes nothing under projects_root: no folder is made and
   no project.json is written. *)
C1_ConflictLeavesStoreUnchanged ==
    [][ (SeqCall("create_project") /\ SeqAfter.id \in DOMAIN fs)
          => (IsRaise(SeqAfter.ret, "ValueError") /\ fs' = fs) ]_vars

(* C1 happens: a create was refused on the id of a project that still
   carries the other display name it was created with *)
C1_Witness ==
    /\ SeqNow.op = "create_project"
    /\ IsRaise(SeqNow.ret, "ValueError")
    /\ SeqNow.id \in DOMAIN fs
    /\ IsRecord(get_project(fs, SeqNow.id))
    /\ Field(get_project(fs, SeqNow.id), "project_name") # SeqNow.arg[1]

(* C2: two create_project calls that derive the same id never both return
   a record: when both have returned (and nothing else was called), one
   returned the record and the other raised ValueError. *)
C2_NoSilentOverwrite ==
    \A t, u \in Threads :
        ( /\ t # u
          /\ calls = 2
          /\ th[t].pc = "done" /\ th[t].op = "create_project"
          /\ th[u].pc = "done" /\ th[u].op = "create_project"
          /\ th[t].id = th[u].id )
        => \/ IsRecord(th[t].ret) /\ IsRaise(th[u].ret, "ValueError")
           \/ IsRecord(th[u].ret) /\ IsRaise(th[t].ret, "ValueError")

(* C3: right after create_project has returned a record, get_project of the
   record's project_id returns an equal record. *)
C3_CreateGetRoundTrip ==
    (SeqNow.op = "create_project" /\ IsRecord(SeqNow.ret))
        => get_project(fs, Field(SeqNow.ret, "project_id")) = SeqNow.ret

(* C3 happens: a project was created under a display name that the
   sanitisation changes, some time having passed within the call *)
C3_Witness ==
    /\ SeqNow.op = "create_project"
    /\ IsRecord(SeqNow.ret)
    /\ Field(SeqNow.ret, "project_name") = <<"/", "a", " ">>
    /\ Field(SeqNow.ret, "project_id") = <<"a", "_", "0">>
    /\ Field(SeqNow.ret, "created_at") # Field(SeqNow.ret, "last_modified")
    /\ get_project(fs, SeqNow.id) = SeqNow.ret

(* C4: add_reviewed_image on an existing project returns True; when the
   name is already reviewed the whole store is left as it was; on a project
   with nothing reviewed it leaves exactly that name and
   annotations_completed = 1 (so any number of calls with one name on a
   fresh project end there). *)
C4_MarkReviewedIdempotent ==
    [][ (SeqCall("add_reviewed_image") /\ IsRecord(get_project(fs, SeqAfter.id)))
          => LET old == get_project(fs, SeqAfter.id)
                 new == get_project(fs', SeqAfter.id)
                 name == PyStr(SeqAfter.arg)
             IN  /\ SeqAfter.ret = True
                 /\ Occurrences(name, ReviewedNames(old)) > 0 => fs' = fs
                 /\ ReviewedNames(old) = <<>> =>
                        /\ ReviewedNames(new) = <<name>>
                        /\ Status(new, "annotations_completed") = PyInt(1) ]_vars

(* C4 happens: the third call was add_reviewed_image of a name, it returned
   True, and the project holds the name once, counted once *)
C4_Witness ==
    /\ calls = 3
    /\ SeqNow.op = "add_reviewed_image"
    /\ SeqNow.ret = True
    /\ IsRecord(get_project(fs, SeqNow.id))
    /\ ReviewedNames(get_project(fs, SeqNow.id)) = <<PyStr(SeqNow.arg)>>
    /\ Status(get_project(fs, SeqNow.id), "annotations_completed") = PyInt(1)
    /\ Field(get_project(fs, SeqNow.id), "last_modified") # IsoFormat(clock)

CountMatches(md) ==
    Status(md, "annotations_completed") = PyInt(Len(ReviewedNames(md)))

NoDuplicates(md) ==
    \A i, k \in DOMAIN ReviewedNames(md) :
        ReviewedNames(md)[i] = ReviewedNames(md)[k] => i = k

(* The step is an update_workflow_status of project id whose status_updates
   name annotations_completed or reviewed_images *)
ReviewKeyUpdate(id) ==
    /\ SeqCall("update_workflow_status")
    /\ SeqAfter.id = id
    /\ DOMAIN SeqAfter.arg \cap ReviewKeys # {}

(* The project's record before the step, None for a project the step made *)
Before(id) == IF id \in DOMAIN fs THEN get_project(fs, id) ELSE PyNone

(* C5, as claimed: in every reachable state annotations_completed equals
   the length of reviewed_images. *)
C5_CountMatchesAlways ==
    \A id \in DOMAIN fs :
        IsRecord(get_project(fs, id)) => CountMatches(get_project(fs, id))

(* C5, amended: annotations_completed equals the length of reviewed_images
   in every new project, and every store operation keeps the equality,
   except an update_workflow_status whose updates name annotations_completed
   or reviewed_images. *)
C5_CountKeptByOtherCalls ==
    [][ \A id \in DOMAIN fs' :
          LET new == get_project(fs', id) IN
          ( /\ IsRecord(new)
            /\ IsRecord(Before(id)) => CountMatches(Before(id))
            /\ ~ReviewKeyUpdate(id) )
          => CountMatches(new) ]_vars

(* C5 happens: two names were reviewed one after the other and the count
   followed *)
C5_Witness ==
    /\ SeqNow.op = "add_reviewed_image"
    /\ IsRecord(get_project(fs, SeqNow.id))
    /\ Len(ReviewedNames(get_project(fs, SeqNow.id))) = 2
    /\ Status(get_project(fs, SeqNow.id), "annotations_completed") = PyInt(2)

(* C6, as claimed: in every reachable state reviewed_images holds no name
   twice. *)
C6_NoDuplicatesAlways ==
    \A id \in DOMAIN fs :
        IsRecord(get_project(fs, id)) => NoDuplicates(get_project(fs, id))

(* C6, amended: reviewed_images of a new project holds no name twice, and
   every store operation keeps it so, except an update_workflow_status whose
   updates name annotations_completed or reviewed_images. *)
C6_NoDuplicatesKeptByOtherCalls ==
    [][ \A id \in DOMAIN fs' :
          LET new == get_project(fs', id) IN
          ( /\ IsRecord(new)
            /\ IsRecord(Before(id)) => NoDuplicates(Before(id))
            /\ ~ReviewKeyUpdate(id) )
          => NoDuplicates(new) ]_vars

(* C6 happens: add_reviewed_image returned True for a name that the project
   holds once, among two reviewed names *)
C6_Witness ==
    /\ SeqNow.op = "add_reviewed_image"
    /\ SeqNow.ret = True
    /\ IsRecord(get_project(fs, SeqNow.id))
    /\ Len(ReviewedNames(get_project(fs, SeqNow.id))) = 2
    /\ Occurrences(PyStr(SeqNow.arg), ReviewedNames(get_project(fs, SeqNow.id))) = 1

(* Thread t has returned from op on project id *)
Done(t, op, id) == th[t].pc = "done" /\ th[t].op = op /\ th[t].id = id

(* One thread's update_workflow_status and the other's update_settings, on
   the project the first of the three calls created, have both returned
   True *)
BothUpdatesReturnedTrue(id) ==
    /\ calls = 3
    /\ \E t, u \in Threads :
        /\ t # u
        /\ Done(t, "update_workflow_status", id) /\ th[t].ret = True
        /\ Done(u, "update_settings", id) /\ th[u].ret = True

Sidecar(id) == LoadMetadata(fs, id)

HasStatusUpdate(md) ==
    Status(md, "pdf_processed") = True /\ Status(md, "pdf_count") = PyInt(1)

HasSettingsUpdate(md) == Setting(md, "model_file") = PyStr("m.pt")

(* C7: two overlapping read-modify-writes each save their own whole
   document: once update_workflow_status and update_settings have both
   returned True, project.json is the document of the writer whose text
   landed last, with that writer's change and possibly not the other's, or
   the longer text's tail after the shorter text; it is never without both
   changes. *)
C7_LastWriterWins ==
    \A id \in ConcIds :
        BothUpdatesReturnedTrue(id) =>
            /\ PathExists(fs, id)
            /\ \/ fs[id].file.kind = "garbage"
               \/ /\ fs[id].file.kind = "json"
                  /\ HasStatusUpdate(Sidecar(id)) \/ HasSettingsUpdate(Sidecar(id))

(* C7 happens: both calls returned True and project.json holds the settings
   change without the workflow change: an update was lost *)
C7_Witness ==
    \E id \in ConcIds :
        /\ BothUpdatesReturnedTrue(id)
        /\ PathExists(fs, id)
        /\ fs[id].file.kind = "json"
        /\ HasSettingsUpdate(Sidecar(id))
        /\ ~HasStatusUpdate(Sidecar(id))

(* C8: every project directory holds a project.json that parses, in every
   reachable state, the states inside a create_project and inside a rewrite
   of the sidecar included. *)
C8_SidecarAlwaysValid ==
    \A id \in DOMAIN fs : fs[id].file.kind = "json"

(* A directory without project.json *)
OrphanDir(f, id) == PathExists(f, id) /\ f[id].file.kind = "absent"

(* C9: for a directory without project.json every method answers as for a
   project that does not exist: delete_project returns False and removes
   nothing, the mutating methods return False, get_project_path and
   get_project return None. *)
C9_AgreeOnExistence ==
    [][ \A t \in Threads :
          LET c == th'[t] IN
          (th'[t] # th[t] /\ c.pc = "done" /\ OrphanDir(fs, c.id)) =>
              /\ c.op = "delete_project" => (c.ret = False /\ fs' = fs)
              /\ c.op \in Mutators => c.ret = False
              /\ c.op = "get_project_path" => c.ret = PyNone
              /\ c.op = "get_project" => c.ret = PyNone ]_vars

(* No record of list_projects, whatever order iterdir yields, has this id *)
NotListed(f, id) ==
    \A entries \in Orderings(DOMAIN f) :
        \A i \in DOMAIN list_projects(f, entries).v :
            Field(list_projects(f, entries).v[i], "project_id") # id

(* The step is thread t's rmtree, and delete_project returns True *)
DeleteReturnsTrue(t) ==
    /\ th[t].pc = "rmtree"
    /\ th'[t].pc = "done"
    /\ th'[t].ret = True

(* The step belongs to a create_project that derived id *)
CreateStep(id) ==
    \E t \in Threads :
        th[t].op = "create_project" /\ th[t].id = id /\ th'[t] # th[t]

(* C10: when delete_project(id) returns True the project is gone:
   get_project(id) is None and list_projects has no record of it; and a
   project that is gone stays gone through every step of every method,
   those of calls in flight included, except the steps of a create_project
   that derived the same id. *)
C10_DeletionIsFinal ==
    [][ /\ \A t \in Threads :
            DeleteReturnsTrue(t) =>
                /\ get_project(fs', th[t].id) = PyNone
                /\ NotListed(fs', th[t].id)
        /\ \A id \in ConcIds :
            (~PathExists(fs, id) /\ ~CreateStep(id)) =>
                /\ ~PathExists(fs', id)
                /\ get_project(fs', id) = PyNone
                /\ NotListed(fs', id) ]_vars

(* C10 happens: of three calls, a delete_project returned True after the
   project was created and saved, and the other thread's get_project of
   that id returned None *)
C10_Witness ==
    \E t, u \in Threads :
        /\ t # u
        /\ calls = 3
        /\ nextIno = 2
        /\ th[t].pc = "done" /\ th[t].op = "delete_project" /\ th[t].ret = True
        /\ Done(u, "get_project", th[t].id) /\ th[u].ret = PyNone
        /\ ~PathExists(fs, th[t].id)

(* The step is a call, by the single caller, of a method that writes *)
SeqWriterCall ==
    calls' = calls + 1 /\ SeqAfter.op \in Mutators \cup {"delete_project"}

(* C11: update_workflow_status, update_settings, update_excluded_images,
   add_reviewed_image and delete_project on an id that names no directory
   return False and change nothing under projects_root: no directory and no
   project.json is made, the other projects stay as they are. *)
C11_MissingProjectNoWrite ==
    [][ (SeqWriterCall /\ ~PathExists(fs, SeqAfter.id))
          => (SeqAfter.ret = False /\ fs' = fs) ]_vars

(* C11 happens: a mutating call on an id that names no directory returned
   False next to a project that is still there with its record *)
C11_Witness ==
    /\ SeqNow.op \in Mutators
    /\ SeqNow.ret = False
    /\ ~PathExists(fs, SeqNow.id)
    /\ \E id \in DOMAIN fs : IsRecord(get_project(fs, id))

(* The section a merging method writes *)
SectionOf(op) ==
    IF op = "update_workflow_status" THEN "workflow_status" ELSE "settings"

(* C12: update_workflow_status(id, U) on a project returns True and leaves
   workflow_status with U's value under every key of U (a list is replaced
   whole) and the old value under every other key; settings, project_id,
   project_name, description, icon and created_at are as before and
   last_modified is the time of the call.  update_settings does the same
   to settings. *)
C12_ShallowMerge ==
    [][ \A op \in {"update_workflow_status", "update_settings"} :
          (SeqCall(op) /\ IsRecord(get_project(fs, SeqAfter.id))) =>
            LET old == get_project(fs, SeqAfter.id)
                new == get_project(fs', SeqAfter.id)
                U == SeqAfter.arg
                was == Section(old, SectionOf(op))
            IN  /\ SeqAfter.ret = True
                /\ IsRecord(new)
                /\ DOMAIN new.v = DOMAIN old.v
                /\ Section(new, SectionOf(op)) =
                       [k \in DOMAIN U \cup DOMAIN was |->
                           IF k \in DOMAIN U THEN U[k] ELSE was[k]]
                /\ \A k \in DOMAIN old.v \ {SectionOf(op), "last_modified"} :
                       new.v[k] = old.v[k]
                /\ Field(new, "last_modified") = IsoFormat(clock) ]_vars

(* C12 happens: after b.png was reviewed, update_workflow_status put the
   list [a.png, a.png] in the place of [b.png] and the count stayed 1 *)
C12_Witness ==
    /\ SeqNow.op = "update_workflow_status"
    /\ "reviewed_images" \in DOMAIN SeqNow.arg
    /\ SeqNow.ret = True
    /\ IsRecord(get_project(fs, SeqNow.id))
    /\ ReviewedNames(get_project(fs, SeqNow.id)) = <<PyStr("a.png"), PyStr("a.png")>>
    /\ Status(get_project(fs, SeqNow.id), "annotations_completed") = PyInt(1)

(* C13: update_excluded_images(id, L) on a project returns True and leaves
   settings.excluded_images equal to L whatever it was; model_file and
   confidence_threshold are as before. *)
C13_ExcludedReplaced ==
    [][ (SeqCall("update_excluded_images") /\ IsRecord(get_project(fs, SeqAfter.id)))
          => LET old == get_project(fs, SeqAfter.id)
                 new == get_project(fs', SeqAfter.id)
             IN  /\ SeqAfter.ret = True
                 /\ IsRecord(new)
                 /\ DOMAIN Section(new, "settings") = DOMAIN Section(old, "settings")
                 /\ Setting(new, "excluded_images") = PyList(SeqAfter.arg)
                 /\ Setting(new, "model_file") = Setting(old, "model_file")
                 /\ Setting(new, "confidence_threshold")
                        = Setting(old, "confidence_threshold") ]_vars

(* C13 happens: the exclusion list was set on a project whose model_file
   update_settings had changed, and model_file is still the changed one *)
C13_Witness ==
    /\ SeqNow.op = "update_excluded_images"
    /\ SeqNow.arg = <<PyStr("a.png")>>
    /\ SeqNow.ret = True
    /\ IsRecord(get_project(fs, SeqNow.id))
    /\ Setting(get_project(fs, SeqNow.id), "excluded_images") = PyList(<<PyStr("a.png")>>)
    /\ Setting(get_project(fs, SeqNow.id), "model_file") = PyStr("m.pt")

LastModified(md) == Field(md, "last_modified")
CreatedAt(md) == Field(md, "created_at")

(* Thread t's step fixes the document a mutating call will save and opens
   project.json for it *)
MutatorOpens(t) ==
    th[t].op \in Mutators /\ th[t].pc = "open" /\ th'[t].pc = "write"

(* Thread t's step lands the text of a mutating call in project.json *)
MutatorWrites(t) ==
    /\ th[t].op \in Mutators /\ th[t].pc = "write" /\ th'[t].pc = "done"
    /\ PathExists(fs, th[t].id)
    /\ fs[th[t].id].file.kind # "absent"
    /\ fs[th[t].id].file.ino = th[t].fd
    /\ fs'[th[t].id].file.kind = "json"

(* C14, as claimed: last_modified never decreases: no write of a mutating
   call replaces a readable project.json by one with an earlier
   last_modified (both threads being in, or back from, a mutating call of
   the one project created). *)
C14_LastModifiedNeverDecreases ==
    [][ \A t \in Threads :
          ( /\ MutatorWrites(t)
            /\ \A u \in Threads : th[u].op \in Mutators
            /\ fs[th[t].id].file.kind = "json" )
          => ~StrLess(LastModified(LoadMetadata(fs', th[t].id)),
                      LastModified(LoadMetadata(fs, th[t].id))) ]_vars

(* C14, amended: every mutating call that rewrites project.json writes, as
   last_modified, the time it read in that call; that time is not earlier
   than the last_modified or the created_at of the document the call had
   loaded, created_at is kept, and in every readable project.json
   created_at is not later than last_modified.  So last_modified never
   decreases over calls that do not overlap. *)
C14_TouchedOnEveryRewrite ==
    [][ /\ \A t \in Threads :
            MutatorOpens(t) =>
                /\ LastModified(th'[t].md) = IsoFormat(clock)
                /\ ~StrLess(IsoFormat(clock), LastModified(th[t].md))
                /\ CreatedAt(th'[t].md) = CreatedAt(th[t].md)
        /\ \A t \in Threads :
            MutatorWrites(t) => LoadMetadata(fs', th[t].id) = th[t].md
        /\ \A id \in DOMAIN fs' :
            fs'[id].file.kind = "json" =>
                ~StrLess(LastModified(LoadMetadata(fs', id)),
                         CreatedAt(LoadMetadata(fs', id))) ]_vars

(* C14 happens: a mutating call made after the clock moved has returned
   True and project.json carries the time of that call, later than
   created_at *)
C14_Witness ==
    \E t \in Threads :
        /\ th[t].pc = "done" /\ th[t].op \in Mutators /\ th[t].ret = True
        /\ PathExists(fs, th[t].id)
        /\ fs[th[t].id].file.kind = "json"
        /\ LastModified(Sidecar(th[t].id)) = IsoFormat(clock)
        /\ StrLess(CreatedAt(Sidecar(th[t].id)), LastModified(Sidecar(th[t].id)))

(* C15: the project_id in project.json is the name of the project's
   directory, and no call on an existing project changes the project_id or
   the created_at that create_project wrote. *)
C15_ProjectIdImmutable ==
    [][ \A id \in DOMAIN fs' :
          LET new == get_project(fs', id) IN
          IsRecord(new) =>
              /\ Field(new, "project_id") = id
              /\ IsRecord(Before(id)) =>
                    /\ Field(new, "project_id") = Field(Before(id), "project_id")
                    /\ CreatedAt(new) = CreatedAt(Before(id)) ]_vars

(* C15 happens: after create_project and two changes made later, the
   project still has the id of its directory, which is not its display
   name, and the created_at of its creation, earlier than last_modified *)
C15_Witness ==
    /\ calls = 3
    /\ SeqNow.op \in Mutators
    /\ SeqNow.ret = True
    /\ nextIno = 2
    /\ IsRecord(get_project(fs, SeqNow.id))
    /\ Field(get_project(fs, SeqNow.id), "project_id") = SeqNow.id
    /\ Field(get_project(fs, SeqNow.id), "project_name") # SeqNow.id
    /\ CreatedAt(get_project(fs, SeqNow.id)) = <<"0">>
    /\ LastModified(get_project(fs, SeqNow.id)) = <<"1">>
    /\ Setting(get_project(fs, SeqNow.id), "model_file") = PyStr("m.pt")
    /\ Status(get_project(fs, SeqNow.id), "pdf_count") = PyInt(1)

(* The directories whose project.json exists and parses *)
ValidSidecars(f) == {id \in DOMAIN f : f[id].file.kind = "json"}

(* C16: list_projects returns a list that holds, once each, the records of
   the directories whose project.json exists and parses, and nothing else,
   a record never standing before one with a later last_modified; the
   directories without project.json or with one that does not parse are
   left out and the call still returns its list. *)
C16_ListIsTheValidSidecars ==
    SeqNow.op = "list_projects" =>
        LET r == SeqNow.ret.v IN
        /\ SeqNow.ret.t = "list"
        /\ Len(r) = Cardinality(ValidSidecars(fs))
        /\ \A id \in ValidSidecars(fs) :
              \E i \in DOMAIN r : r[i] = LoadMetadata(fs, id)
        /\ \A i \in DOMAIN r :
              \E id \in ValidSidecars(fs) : r[i] = LoadMetadata(fs, id)
        /\ \A i, k \in DOMAIN r :
              i < k => ~StrLess(LastModified(r[i]), LastModified(r[k]))

(* C16 happens: of three directories, one with a project.json that does not
   parse, list_projects returned the two records, the later one first *)
C16_Witness ==
    /\ SeqNow.op = "list_projects"
    /\ Cardinality(DOMAIN fs) = 3
    /\ \E id \in DOMAIN fs : fs[id].file.kind \in {"empty", "garbage"}
    /\ Len(SeqNow.ret.v) = 2
    /\ StrLess(LastModified(SeqNow.ret.v[2]), LastModified(SeqNow.ret.v[1]))

(* C17: when create_project has returned a record, project.json has
   pdf_processed and model_applied False, pdf_count, images_extracted,
   masks_extracted, annotations_completed and total_images 0,
   reviewed_images and excluded_images empty, and the project directory
   holds the seven folders pdf_source, images, masks, cards, cards_modified,
   exports and models. *)
C17_CreateInitialState ==
    (SeqNow.op = "create_project" /\ IsRecord(SeqNow.ret)) =>
        LET md == get_project(fs, SeqNow.id) IN
        /\ IsRecord(md)
        /\ Status(md, "pdf_processed") = PyBool(FALSE)
        /\ Status(md, "model_applied") = PyBool(FALSE)
        /\ \A k \in {"pdf_count", "images_extracted", "masks_extracted",
                     "annotations_completed", "total_images"} :
              Status(md, k) = PyInt(0)
        /\ Status(md, "reviewed_images") = PyList(<<>>)
        /\ Setting(md, "excluded_images") = PyList(<<>>)
        /\ fs[SeqNow.id].folders =
              {"pdf_source", "images", "masks", "cards", "cards_modified",
               "exports", "models"}

(* C17 happens: a second project was created, a second later than the first
   one, which had been changed; the new one is as a new project is *)
C17_Witness ==
    /\ calls = 3
    /\ SeqNow.op = "create_project"
    /\ IsRecord(SeqNow.ret)
    /\ Cardinality(DOMAIN fs) = 2
    /\ \E id \in DOMAIN fs \ {SeqNow.id} :
          /\ IsRecord(get_project(fs, id))
          /\ Status(get_project(fs, id), "pdf_processed") = PyBool(TRUE)
    /\ Status(get_project(fs, SeqNow.id), "pdf_processed") = PyBool(FALSE)
    /\ Cardinality(fs[SeqNow.id].folders) = 7

Counters == {"pdf_count", "images_extracted", "total_images"}

StageOps == {"upload_pdf", "apply_model", "extract_project_masks",
             "update_workflow_status"}

(* The step is a request that hands the store status_updates naming key k
   for project id *)
Gives(id, k) ==
    /\ calls' = calls + 1
    /\ SeqAfter.op \in StageOps
    /\ SeqAfter.id = id
    /\ k \in DOMAIN SeqAfter.arg

(* The number of files counter k counts: the entries of pdf_source named
   *.pdf, the image files of images *)
FileCount(f, id, k) ==
    Cardinality(f[id].files \cap (IF k = "pdf_count" THEN PdfPaths ELSE ImagePaths))

(* C18, as claimed: pdf_count, images_extracted and total_images of a
   project never decrease, whatever requests are made. *)
C18_CountersNeverDecrease ==
    [][ \A id \in DOMAIN fs :
          (IsRecord(get_project(fs, id)) /\ IsRecord(get_project(fs', id))) =>
              \A k \in Counters :
                  Status(get_project(fs', id), k).v >= Status(get_project(fs, id), k).v
      ]_vars

(* C18, amended: the three counters change only when update_workflow_status
   is given them, and then take the value given, greater or smaller; an
   upload_pdf that succeeds gives the number of entries of pdf_source named
   *.pdf and the number of image files in images; so a
   counter that is not above its number of files does not decrease in any
   request but a PATCH of the workflow status that names it. *)
C18_CountersFollowTheCaller ==
    [][ \A id \in DOMAIN fs :
          LET old == get_project(fs, id)
              new == get_project(fs', id) IN
          (IsRecord(old) /\ IsRecord(new)) =>
              \A k \in Counters :
                  /\ Status(new, k) # Status(old, k) =>
                        (Gives(id, k) /\ Status(new, k) = SeqAfter.arg[k])
                  /\ (calls' = calls + 1 /\ SeqAfter.op = "upload_pdf"
                        /\ SeqAfter.id = id /\ SeqAfter.ret = True) =>
                        Status(new, k) = PyInt(FileCount(fs', id, k))
                  /\ ( /\ Status(old, k).v <= FileCount(fs, id, k)
                       /\ ~(SeqAfter.op = "update_workflow_status" /\ Gives(id, k)) )
                        => Status(new, k).v >= Status(old, k).v ]_vars

(* C18 happens: a second PDF was uploaded and the counters went up to the
   two PDFs and the two images there are *)
C18_Witness ==
    /\ SeqNow.op = "upload_pdf"
    /\ SeqNow.ret = True
    /\ calls = 3
    /\ FileCount(fs, SeqNow.id, "pdf_count") = 2
    /\ Status(get_project(fs, SeqNow.id), "pdf_count") = PyInt(2)
    /\ Status(get_project(fs, SeqNow.id), "images_extracted") = PyInt(2)
    /\ Status(get_project(fs, SeqNow.id), "total_images") = PyInt(2)

(* The keys create_project writes under workflow_status and settings *)
CreatedKeys(section) == DOMAIN Section(Metadata(<<>>, <<>>, "", "", 0, 0), section)

(* C19: in every state the keys of workflow_status and of settings in
   project.json are the keys create_project wrote, whatever requests have
   been made. *)
C19_KeysStable ==
    \A id \in DOMAIN fs :
        IsRecord(get_project(fs, id)) =>
            \A section \in {"workflow_status", "settings"} :
                DOMAIN Section(get_project(fs, id), section) = CreatedKeys(section)

(* C20: update_workflow_status, reached by a stage's request for a project
   with a record, returns True and stores every value it is given, whatever
   the project's workflow_status is at that moment. *)
C20_NoStageUpdateRejected ==
    [][ \A id \in DOMAIN fs :
          ( /\ IsRecord(get_project(fs, id))
            /\ calls' = calls + 1
            /\ SeqAfter.op \in StageOps
            /\ SeqAfter.id = id
            /\ DOMAIN SeqAfter.arg # {} )
          => /\ SeqAfter.ret = True
             /\ IsRecord(get_project(fs', id))
             /\ \A k \in DOMAIN SeqAfter.arg :
                   Status(get_project(fs', id), k) = SeqAfter.arg[k] ]_vars

(* C20 happens: a PATCH of the workflow status set model_applied for a
   project no PDF was processed for: model_applied is True and
   pdf_processed False *)
C20_Witness ==
    /\ SeqNow.op = "update_workflow_status"
    /\ SeqNow.ret = True
    /\ IsRecord(get_project(fs, SeqNow.id))
    /\ Status(get_project(fs, SeqNow.id), "model_applied") = True
    /\ Status(get_project(fs, SeqNow.id), "pdf_processed") = False

SameLetter(a, b) ==
    a = b \/ \E i \in DOMAIN Uppers : {a, b} = {Uppers[i], Lowers[i]}

(* The name is a stem, a dot and one of the six extensions in any case *)
HasImageExtension(name) ==
    \E ext \in { <<"j", "p", "g">>, <<"j", "p", "e", "g">>, <<"p", "n", "g">>, <<"b", "m", "p">>, <<"t", "i", "f">>, <<"t", "i", "f", "f">> } :
        /\ Len(name) > Len(ext) + 1
        /\ name[Len(name) - Len(ext)] = "."
        /\ \A i \in DOMAIN ext : SameLetter(name[Len(name) - Len(ext) + i], ext[i])

ImageFiles(f, id, folder) ==
    IF id \notin DOMAIN f \/ folder \notin f[id].folders THEN {}
    ELSE {e.name : e \in {x \in f[id].files :
              x.folder = folder /\ x.is_file /\ HasImageExtension(x.name)}}

(* C21: get_images_list(id, folder) returns, in ascending order and each
   once, exactly the names of the regular files of the folder whose
   extension is jpg, jpeg, png, bmp, tif or tiff in any case; the list is
   empty when the project or the folder is absent; count_files returns the
   number of those files. *)
C21_ImagesListed ==
    /\ SeqNow.op = "get_images_list" =>
          LET names == SeqNow.ret IN
          /\ {names[i] : i \in DOMAIN names} = ImageFiles(fs, SeqNow.id, SeqNow.arg)
          /\ \A i, k \in DOMAIN names : i < k => StrLess(names[i], names[k])
    /\ SeqNow.op = "count_files" =>
          SeqNow.ret = Cardinality(ImageFiles(fs, SeqNow.id, SeqNow.arg))

(* C21 happens: the folder held a.png, b.txt, c.JPG, B.png, a hidden .png
   and a directory d.png, and the call listed B.png, a.png, c.JPG *)
C21_Witness ==
    /\ SeqNow.op = "get_images_list"
    /\ SeqNow.arg = "images"
    /\ SeqNow.id \in DOMAIN fs
    /\ Cardinality(IterDir(fs, SeqNow.id, "images")) = 6
    /\ SeqNow.ret = << <<"B", ".", "p", "n", "g">>, <<"a", ".", "p", "n", "g">>, <<"c", ".", "J", "P", "G">> >>

(* The step is a call of launch_app for app_id *)
Launches(app_id) == SeqCall("launch_app") /\ SeqAfter.id = app_id

(* The child processes started for app_id that have not ended *)
LiveProcesses(h, app_id) ==
    {pid \in DOMAIN h.procs : h.procs[pid].app = app_id /\ h.procs[pid].alive}

(* C22, as claimed: launch_app on an app whose tracked process is alive
   returns True and starts nothing; no call starts a process for an app that
   has a live one; so every live child process is the one tracked for its
   app, and there is at most one per app. *)
C22_OneProcessPerApp ==
    [][ /\ \A app_id \in KnownApps :
              /\ ( /\ Launches(app_id)
                   /\ Tracked(manager, app_id)
                   /\ Alive(host, manager.processes[app_id]) )
                    => (SeqAfter.ret = True /\ host' = host /\ manager' = manager)
              /\ Len(host'.procs) > Len(host.procs) =>
                    LiveProcesses(host, host'.procs[Len(host'.procs)].app) = {}
        /\ \A app_id \in KnownApps :
              /\ Cardinality(LiveProcesses(host', app_id)) <= 1
              /\ \A pid \in LiveProcesses(host', app_id) :
                    Tracked(manager', app_id) /\ manager'.processes[app_id] = pid
      ]_vars

(* C22, amended: launch_app on an app that is marked installed and whose
   tracked process is alive returns True and changes nothing; on an app
   marked not installed it returns False, a live tracked process or not; no
   call starts a process for an app that has a live one; every live child
   process is the one tracked for its app, and there is at most one per
   app. *)
C22_OneProcessPerInstalledApp ==
    [][ /\ \A app_id \in KnownApps :
              /\ ( /\ Launches(app_id)
                   /\ Tracked(manager, app_id)
                   /\ Alive(host, manager.processes[app_id]) )
                    => /\ host' = host /\ manager' = manager
                       /\ SeqAfter.ret = IF manager.apps[app_id].installed
                                         THEN True ELSE False
              /\ Len(host'.procs) > Len(host.procs) =>
                    LiveProcesses(host, host'.procs[Len(host'.procs)].app) = {}
        /\ \A app_id \in KnownApps :
              /\ Cardinality(LiveProcesses(host', app_id)) <= 1
              /\ \A pid \in LiveProcesses(host', app_id) :
                    Tracked(manager', app_id) /\ manager'.processes[app_id] = pid
      ]_vars

(* C22 happens: an app was launched, and launched again while its process
   was alive: the second call answered True, "already running", and there
   is still the one process *)
C22_Witness ==
    /\ SeqNow.op = "launch_app"
    /\ SeqNow.ret = True
    /\ SeqNow.arg = "is already running"
    /\ Len(host.procs) = 1
    /\ LiveProcesses(host, SeqNow.id) = {1}

(* C29: for every app, is_running is true exactly when the app is a key of
   _processes, after any calls of launch_app, stop_app, uninstall_app,
   get_app_status, get_running_apps and download_app, failed or not. *)
C29_RunningFlagMatchesTable ==
    \A app_id \in KnownApps :
        manager.apps[app_id].is_running <=> Tracked(manager, app_id)

(* C29 happens: an app that was launched is stopped, or its process ended
   and a status query dropped it, while the other app's process is alive
   and tracked *)
C29_Witness ==
    /\ SeqNow.op \in {"stop_app", "get_app_status", "get_running_apps"}
    /\ \E pid \in DOMAIN host.procs :
          /\ ~host.procs[pid].alive
          /\ ~Tracked(manager, host.procs[pid].app)
          /\ ~manager.apps[host.procs[pid].app].is_running
    /\ \E pid \in DOMAIN host.procs :
          /\ host.procs[pid].alive
          /\ Tracked(manager, host.procs[pid].app)
          /\ manager.apps[host.procs[pid].app].is_running

(* A version without its leading v's and outer blanks *)
Bare(version) == Strip(LStripV(version))

(* The version is numbers separated by dots *)
Numeric(version) ==
    /\ Bare(version) # <<>>
    /\ Bare(version)[1] # "." /\ Bare(version)[Len(Bare(version))] # "."
    /\ \A i \in DOMAIN Bare(version) :
          /\ IsDigit(Bare(version)[i]) \/ Bare(version)[i] = "."
          /\ (i > 1 /\ Bare(version)[i] = ".") => Bare(version)[i - 1] # "."

(* The k-th number of a numeric version, 0 beyond its last *)
Component(version, k) ==
    LET parts == Split(Bare(version), <<>>)
    IN  IF k <= Len(parts) THEN ToInt(parts[k]) ELSE 0

(* a is lower than b: at the first component that differs a's is smaller *)
LowerVersion(a, b) ==
    \E k \in 1..(Len(a) + Len(b)) :
        /\ Component(a, k) < Component(b, k)
        /\ \A i \in 1..(k - 1) : Component(a, i) = Component(b, i)

ComparedAs(t, a, b) ==
    th[t].pc = "done" /\ th[t].op = "compare_versions" /\ th[t].arg = <<a, b>>

BranchName(version) == Bare(version) \in {<<"m", "a", "i", "n">>, <<"m", "a", "s", "t", "e", "r">>}

(* C23, as claimed: compare_versions(current, latest) is -1, 0 or 1 as
   current is lower than, equal to or higher than latest, by their numbers
   when both are numeric; it is 0 for two equal strings; and
   compare_versions(a, b) = -compare_versions(b, a) for all version strings
   a and b. *)
C23_CompareVersions ==
    \A t \in Threads : \A a, b \in Versions :
        ComparedAs(t, a, b) =>
            /\ (Numeric(a) /\ Numeric(b)) =>
                    th[t].ret = IF LowerVersion(a, b) THEN -1
                                ELSE IF LowerVersion(b, a) THEN 1 ELSE 0
            /\ a = b => th[t].ret = 0
            /\ \A u \in Threads : ComparedAs(u, b, a) => th[t].ret = -th[u].ret

(* C23, amended: the same, for versions neither of which is the branch name
   main or master once the leading v's and the outer blanks are removed;
   a current version that is one of the two compares as -1 with every latest
   version that is not empty, itself included. *)
C23_CompareReleasedVersions ==
    \A t \in Threads : \A a, b \in Versions :
        ComparedAs(t, a, b) =>
            /\ (Numeric(a) /\ Numeric(b)) =>
                    th[t].ret = IF LowerVersion(a, b) THEN -1
                                ELSE IF LowerVersion(b, a) THEN 1 ELSE 0
            /\ (~BranchName(a) /\ ~BranchName(b)) =>
                    /\ a = b => th[t].ret = 0
                    /\ \A u \in Threads : ComparedAs(u, b, a) => th[t].ret = -th[u].ret
            /\ BranchName(a) => th[t].ret = IF Bare(b) # <<>> THEN -1 ELSE 0

(* C23 happens: 1.10 was compared with 1.9 and is the higher one, and 1.9
   with 1.10 and is the lower one *)
C23_Witness ==
    /\ ComparedAs("t1", <<"1", ".", "1", "0">>, <<"1", ".", "9">>) /\ th["t1"].ret = 1
    /\ ComparedAs("t2", <<"1", ".", "9">>, <<"1", ".", "1", "0">>) /\ th["t2"].ret = -1

(* C24: when process_project_cards has classified a card of a project
   (cards_modified holds the classifications.csv it wrote) and the cards
   folder holds mask_info.csv, a merge_project_annotations request finds the
   classifications and succeeds: it does not answer that classifications.csv
   was not found. *)
C24_MergeFindsClassifications ==
    [][ \A id \in DOMAIN fs :
          ( /\ SeqCall("merge_project_annotations") /\ SeqAfter.id = id
            /\ FileExists(fs, id, "cards_modified", ClassificationsCsv)
            /\ FileExists(fs, id, "cards", MaskInfoCsv) )
          => /\ SeqAfter.ret = Ok
             /\ SeqAfter.arg # "classifications.csv not found" ]_vars

(* The files of pdf_source that are PDFs: named with the extension .pdf, as
   upload_pdf accepts them *)
PdfFiles(f, id) ==
    {e \in f[id].files :
        /\ e.folder = "pdf_source" /\ e.is_file /\ Len(e.name) >= 4
        /\ \A i \in 1..4 : SameLetter(e.name[Len(e.name) - 4 + i],
                                       <<".", "p", "d", "f">>[i])}

(* C25: after upload_pdf has succeeded for a project, its workflow_status
   has pdf_processed true, pdf_count equal to the number of .pdf files in
   pdf_source, and images_extracted and total_images both equal to the
   number of image files in images at that moment. *)
C25_UploadCountsFiles ==
    [][ \A id \in DOMAIN fs :
          (SeqCall("upload_pdf") /\ SeqAfter.id = id /\ SeqAfter.ret = True) =>
              LET new == get_project(fs', id)
                  images == PyInt(Cardinality(ImageFiles(fs', id, "images"))) IN
              /\ Status(new, "pdf_processed") = True
              /\ Status(new, "pdf_count") = PyInt(Cardinality(PdfFiles(fs', id)))
              /\ Status(new, "images_extracted") = images
              /\ Status(new, "total_images") = images ]_vars

(* Thread t is inside an extract_project_masks request *)
Extracting(t) == th[t].op = "extract_project_masks" /\ th[t].pc # "done"

(* In this step worker w leaves run_model, whose model run had raised or
   had not *)
RunModelEnds(w, raised) ==
    /\ th[w].op = "run_model"
    /\ th[w].pc = (IF raised THEN "except" ELSE "mask_count")
    /\ th'[w].pc = "done"

(* The mask files count_files counts in the project *)
MaskCount(f, id) == Cardinality(ImageFiles(f, id, "masks"))

(* C26: model_applied and masks_extracted of a project change only in the
   step in which a model thread whose run returned without exception
   reports, and then become true and the number of mask files there are;
   no request step and no running model changes them; when the run raised,
   the thread leaves the project's metadata as it is and sets
   model_progress.active to false with an error message. *)
C26_ModelAppliedAfterRun ==
    [][ \A id \in DOMAIN fs :
          LET old == get_project(fs, id)
              new == get_project(fs', id) IN
          /\ ( \/ Status(new, "model_applied") # Status(old, "model_applied")
               \/ Status(new, "masks_extracted") # Status(old, "masks_extracted") )
                => \E w \in Workers : RunModelEnds(w, FALSE) /\ th[w].id = id
          /\ \A w \in Workers :
                /\ (RunModelEnds(w, FALSE) /\ th[w].id = id) =>
                      /\ Status(new, "model_applied") = True
                      /\ Status(new, "masks_extracted") = PyInt(MaskCount(fs', id))
                /\ (RunModelEnds(w, TRUE) /\ th[w].id = id) =>
                      /\ new = old
                      /\ globals'.model_progress.active = FALSE
                      /\ globals'.model_progress.message = "Error" ]_vars

(* C26 happens: the model run of one thread raised and that of the other
   returned; the project has model_applied true and its one mask counted,
   and model_progress is inactive *)
C26_Witness ==
    /\ th["w1"].op = "run_model" /\ th["w1"].pc = "done" /\ th["w1"].arg = "Error"
    /\ th["w2"].op = "run_model" /\ th["w2"].pc = "done" /\ th["w2"].arg = "result"
    /\ Status(get_project(fs, ImagesId), "model_applied") = True
    /\ Status(get_project(fs, ImagesId), "masks_extracted") = PyInt(1)
    /\ ~globals.model_progress.active

(* C27: whenever no extract_project_masks request is in flight,
   builtins.print is the original print, also after two requests that
   overlapped. *)
C27_PrintRestored ==
    (\A t \in Threads : ~Extracting(t)) => globals.print = BuiltinPrint

(* The project has a masks folder that holds no *_mask_layer.png *)
NoMaskLayers(f, id) ==
    /\ get_project(f, id) # PyNone
    /\ "masks" \in f[id].folders
    /\ \A e \in f[id].files :
          e.folder = "masks" =>
              ~EndsWith(e.name, <<"_", "m", "a", "s", "k", "_", "l", "a", "y", "e", "r", ".", "p", "n", "g">>)

(* C28: an extract_project_masks request for a project whose masks folder
   holds no *_mask_layer.png answers 404 'Apply a model first' at once: it
   runs no extraction (no file is written, builtins.print is not replaced),
   does not touch operation_progress, which is inactive afterwards unless
   another extraction is in flight, and leaves the sidecar as it was. *)
C28_NoMasksNoExtraction ==
    [][ \A t \in Threads :
          ( /\ calls' = calls + 1 /\ th'[t] # th[t]
            /\ th'[t].op = "extract_project_masks"
            /\ NoMaskLayers(fs, th'[t].id) )
          => /\ th'[t].pc = "done"
             /\ th'[t].ret = NotFound
             /\ th'[t].arg = "No mask files found. Apply a model first."
             /\ fs'[th'[t].id].files = fs[th'[t].id].files
             /\ get_project(fs', th'[t].id) = get_project(fs, th'[t].id)
             /\ globals'.print = globals.print
             /\ globals'.operation_progress = globals.operation_progress
             /\ (\A u \in Threads : ~Extracting(u)) =>
                    ~globals'.operation_progress.active ]_vars

(* C28 happens: the project has its masks folder and no mask in it, the
   request was answered 404 and the progress is inactive *)
C28_Witness ==
    /\ th["t1"].op = "extract_project_masks" /\ th["t1"].pc = "done"
    /\ th["t1"].ret = NotFound
    /\ th["t1"].arg = "No mask files found. Apply a model first."
    /\ NoMaskLayers(fs, th["t1"].id)
    /\ ~globals.operation_progress.active

(* C30: a get_latest_release call with include_prerelease false that
   returns a release returns one whose prerelease flag is false, whatever
   calls came before it for the same repository and whatever they left in
   the cache. *)
C30_NoPrereleaseUnlessAsked ==
    (SeqNow.op = "get_latest_release" /\ SeqNow.arg = False /\ SeqNow.ret # PyNone)
        => ~SeqNow.ret.v.prerelease

====
